---- MODULE Spec2Model ----
(***************************************************************************)
(* Model of the conversion engine of kobo-bulk-import                      *)
(* (src/scripts/excel_to_kobo_xml.py, class ExcelToKoboXML).               *)
(*                                                                         *)
(* Strings are sequences of tokens (a token is one character, or one       *)
(* indivisible word such as "position" where only its presence matters).   *)
(* A cell value is a string or NaN; a node text is a string or None.       *)
(***************************************************************************)
EXTENDS Integers, Sequences, FiniteSets, TLC

VARIABLES
    mapping_file, \* the file at mapping_path when the converter is constructed
    self,         \* the converter's fields after __init__, or the error it raised
    pc,           \* position of convert_all / convert_submission
    form_version, \* the form_version argument of convert_all
    output_dir,   \* the output_dir argument of convert_all
    files,        \* the files written under output_dir: name -> content
    uuids,        \* convert_all: the identifiers to convert, in order
    cursor,       \* convert_all: index of the current identifier in uuids
    results,      \* convert_all: identifier -> document, in insertion order
    errors,       \* convert_all: identifiers reported on stderr, in order
    etree,        \* convert_submission: the element tree of the current record
    sheet_i,      \* convert_submission: index of the next sheet to attach
    value,        \* argument of the _convert_label_to_name call under study
    field_name,   \* argument of the _convert_label_to_name call under study
    once,         \* result of _convert_label_to_name(field_name, value)
    twice,        \* result of _convert_label_to_name(field_name, once)
    cpc,          \* position of the resolver driver
    argv,         \* submit command: the options given on the command line
    config_file,  \* submit command: the file named by --config
    config,       \* main: the loaded configuration
    args,         \* main: the arguments after get_arg and the server defaults
    mpc,          \* main: position
    fetched,      \* main: the asset was requested from the API
    disk,         \* the temporary files that exist
    temp_content_file, \* main: None or the temporary content file
    temp_mapping_file, \* main: None or the temporary mapping file
    mapping_path, \* main: the mapping_path the converter was constructed with
    submissions,  \* main: the identifiers of the converted documents, in order
    attempts,     \* submit_multiple: transport outcome and result of every submit_xml call
    successful,   \* submit_multiple: results['successful']
    failed        \* submit_multiple: results['failed']

resolverVars == <<value, field_name, once, twice, cpc>>
engineVars == <<pc, form_version, output_dir, files, uuids, cursor, results, errors,
               etree, sheet_i>>
submitVars == <<argv, config_file, config, args, mpc, fetched, disk, temp_content_file,
                temp_mapping_file, mapping_path, submissions, attempts, successful,
                failed>>
vars == <<mapping_file, self, pc, form_version, output_dir, files, uuids, cursor, results, errors,
          etree, sheet_i,
          value, field_name, once, twice, cpc,
          argv, config_file, config, args, mpc, fetched, disk, temp_content_file,
          temp_mapping_file, mapping_path, submissions, attempts, successful, failed>>

(***************************************************************************)
(* Strings                                                                 *)
(***************************************************************************)
NaN == <<"<NaN>">>
None == <<"<None>">>
SP == " "

isna(v) == v = NaN

RECURSIVE lstrip(_)
lstrip(s) == IF s # <<>> /\ Head(s) = SP THEN lstrip(Tail(s)) ELSE s

RECURSIVE rstrip(_)
rstrip(s) ==
    IF s # <<>> /\ s[Len(s)] = SP THEN rstrip(SubSeq(s, 1, Len(s) - 1)) ELSE s

strip(s) == rstrip(lstrip(s))

\* str.lstrip('/')
RECURSIVE lstripSlash(_)
lstripSlash(s) == IF s # <<>> /\ Head(s) = "/" THEN lstripSlash(Tail(s)) ELSE s

contains(s, c) == \E i \in 1..Len(s) : s[i] = c

startswith(s, p) == Len(p) <= Len(s) /\ SubSeq(s, 1, Len(p)) = p

\* str.split(sep) for a one-character separator: keeps empty pieces
RECURSIVE split(_, _)
split(s, c) ==
    IF ~contains(s, c) THEN <<s>>
    ELSE LET i == CHOOSE j \in 1..Len(s) :
                      s[j] = c /\ \A k \in 1..(j - 1) : s[k] # c
         IN  <<SubSeq(s, 1, i - 1)>> \o split(SubSeq(s, i + 1, Len(s)), c)

\* sep.join(parts)
RECURSIVE join(_, _)
join(sep, parts) ==
    IF parts = <<>> THEN <<>>
    ELSE IF Len(parts) = 1 THEN parts[1]
    ELSE parts[1] \o sep \o join(sep, Tail(parts))

(***************************************************************************)
(* Ordered dictionaries: a sequence of [k, v] entries with distinct keys   *)
(***************************************************************************)
keys(d) == {d[i].k : i \in 1..Len(d)}
values(d) == {d[i].v : i \in 1..Len(d)}
get(d, key) == d[CHOOSE i \in 1..Len(d) : d[i].k = key].v
\* d[key] = val: a known key keeps its place, a new key goes last
put(d, key, val) ==
    IF key \in keys(d)
    THEN [i \in 1..Len(d) |-> IF d[i].k = key THEN [k |-> key, v |-> val] ELSE d[i]]
    ELSE Append(d, [k |-> key, v |-> val])

(***************************************************************************)
(* ExcelToKoboXML._convert_label_to_name                                   *)
(***************************************************************************)
\* lines 127-129 and 145-149: first key whose stripped label equals s
ReverseHits(mapping, s) == {i \in 1..Len(mapping) : strip(mapping[i].v) = s}
ReverseLookup(mapping, s) ==
    mapping[CHOOSE i \in ReverseHits(mapping, s) :
                \A j \in ReverseHits(mapping, s) : i <= j].k

\* lines 136-151: one token of a multi-select value
ConvertPart(mapping, part) ==
    IF part \in values(mapping) THEN part
    ELSE IF part \in keys(mapping) THEN get(mapping, part)
    ELSE IF ReverseHits(mapping, part) # {} THEN ReverseLookup(mapping, part)
    ELSE part

\* line 134: [p.strip() for p in value_str.split(sep) if p.strip()]
RECURSIVE StripNonEmpty(_)
StripNonEmpty(ps) ==
    IF ps = <<>> THEN <<>>
    ELSE IF strip(Head(ps)) # <<>>
         THEN <<strip(Head(ps))>> \o StripNonEmpty(Tail(ps))
         ELSE StripNonEmpty(Tail(ps))

\* a split that keeps the blank pieces
SplitParts_KeepBlank(value_str, sep) ==
    LET pieces == split(value_str, sep)
    IN  [i \in 1..Len(pieces) |-> strip(pieces[i])]

SplitParts(value_str, sep) == StripNonEmpty(split(value_str, sep))

\* a multi-select conversion that joins with the separator it split on
ConvertMulti_KeepSep(mapping, value_str, sep) ==
    LET parts == SplitParts(value_str, sep)
    IN  join(<<sep>>, [i \in 1..Len(parts) |-> ConvertPart(mapping, parts[i])])

\* lines 132-153 for one separator
ConvertMulti(mapping, value_str, sep) ==
    LET parts == SplitParts(value_str, sep)
    IN  join(<<SP>>, [i \in 1..Len(parts) |-> ConvertPart(mapping, parts[i])])

Separators == <<";", "|", SP>>

\* a resolver that looks for a label before it looks for a code
convert_label_to_name_LabelFirst(conv, fname, v) ==
    IF ~conv.use_labels \/ isna(v) THEN v
    ELSE IF fname \notin keys(conv.choice_mappings) THEN v
    ELSE LET mapping == get(conv.choice_mappings, fname)
             value_str == strip(v)
         IN  IF value_str \in keys(mapping) THEN get(mapping, value_str)
             ELSE IF value_str \in values(mapping) THEN v
             ELSE IF ReverseHits(mapping, value_str) # {}
                  THEN ReverseLookup(mapping, value_str)
             ELSE IF contains(value_str, Separators[1])
                  THEN ConvertMulti(mapping, value_str, Separators[1])
             ELSE IF contains(value_str, Separators[2])
                  THEN ConvertMulti(mapping, value_str, Separators[2])
             ELSE IF contains(value_str, Separators[3])
                  THEN ConvertMulti(mapping, value_str, Separators[3])
             ELSE v

\* lines 94-156
convert_label_to_name(conv, fname, v) ==
    IF ~conv.use_labels \/ isna(v) THEN v
    ELSE IF fname \notin keys(conv.choice_mappings) THEN v
    ELSE LET mapping == get(conv.choice_mappings, fname)
             value_str == strip(v)
         IN  IF value_str \in values(mapping) THEN v
             ELSE IF value_str \in keys(mapping) THEN get(mapping, value_str)
             ELSE IF ReverseHits(mapping, value_str) # {}
                  THEN ReverseLookup(mapping, value_str)
             ELSE IF contains(value_str, Separators[1])
                  THEN ConvertMulti(mapping, value_str, Separators[1])
             ELSE IF contains(value_str, Separators[2])
                  THEN ConvertMulti(mapping, value_str, Separators[2])
             ELSE IF contains(value_str, Separators[3])
                  THEN ConvertMulti(mapping, value_str, Separators[3])
             ELSE v

(***************************************************************************)
(* Column names, tables and rows                                           *)
(*   a table is [columns |-> set of names, rows |-> sequence of rows];     *)
(*   a row is a function from the table's columns to cell values           *)
(***************************************************************************)
SL == "/"
UuidCol == <<"_", "submission__uuid">>
DeprecatedCol == <<"deprecatedID">>
DataSheet == <<"data">>
PositionTag == <<"position">>

\* str(idx) of a positive integer
Digit == <<"0", "1", "2", "3", "4", "5", "6", "7", "8", "9">>
RECURSIVE str(_)
str(n) == IF n < 10 THEN <<Digit[n + 1]>> ELSE str(n \div 10) \o <<Digit[(n % 10) + 1]>>

\* pandas comparison of two cells: NaN equals nothing
CellEq(a, b) == ~isna(a) /\ ~isna(b) /\ a = b

\* frame[frame['_submission__uuid'] == uuid]
RowsOf(table, uuid) ==
    LET Match(r) == CellEq(r[UuidCol], uuid)
    IN  SelectSeq(table.rows, Match)

\* Series.unique(): first occurrences, in order; NaN counts as one value
RECURSIVE unique(_)
unique(vs) ==
    IF vs = <<>> THEN <<>>
    ELSE LET front == unique(SubSeq(vs, 1, Len(vs) - 1))
             last == vs[Len(vs)]
         IN  IF \E i \in 1..Len(front) : front[i] = last THEN front
             ELSE Append(front, last)

(***************************************************************************)
(* ExcelToKoboXML.__init__: the group-only fields                          *)
(***************************************************************************)
LastPart(path) == LET parts == split(path, SL) IN parts[Len(parts)]

\* a classification that takes any longer path with the same start for a child
IsGroupOnly_NoSlash(col_to_path, col_name, path) ==
    /\ col_name = LastPart(path)
    /\ \E other_path \in values(col_to_path) :
          other_path # path /\ startswith(other_path, path)

\* lines 76-85
IsGroupOnly(col_to_path, col_name, path) ==
    /\ col_name = LastPart(path)
    /\ \E other_path \in values(col_to_path) :
          other_path # path /\ startswith(other_path, path \o <<SL>>)

group_only_fields(col_to_path) ==
    {col_to_path[i].k : i \in {j \in 1..Len(col_to_path) :
          IsGroupOnly(col_to_path, col_to_path[j].k, col_to_path[j].v)}}

(***************************************************************************)
(* Element trees: a sequence of nodes in creation order; node 1 is the     *)
(* root.  ET.SubElement appends, so the children of a node stand in        *)
(* creation order.  "made" records which statement created the node and   *)
(* "src" the column whose value _create_nested_element wrote as its text;  *)
(* neither is read by the converter nor part of the document.              *)
(***************************************************************************)
Root == 1

Element(tag, parent, made) ==
    [tag |-> tag, parent |-> parent, text |-> None, attrib |-> <<>>,
     made |-> made, src |-> None]

Children(tree, n) == {i \in 1..Len(tree) : tree[i].parent = n}

\* Element.find(tag): the first child with that tag, 0 when there is none
find(tree, n, tag) ==
    LET hits == {i \in Children(tree, n) : tree[i].tag = tag}
    IN  IF hits = {} THEN 0 ELSE CHOOSE i \in hits : \A j \in hits : i <= j

\* ET.SubElement(parent, tag)
SubElement(tree, parent, tag, made) == Append(tree, Element(tag, parent, made))

SetText(tree, n, text) == [tree EXCEPT ![n].text = text]

\* a path builder that never looks for an existing child
RECURSIVE Descend_NoReuse(_, _, _, _)
Descend_NoReuse(tree, current, parts, made) ==
    IF parts = <<>> THEN [tree |-> tree, current |-> current]
    ELSE Descend_NoReuse(SubElement(tree, current, Head(parts), made),
                         Len(tree) + 1, Tail(parts), made)

\* lines 174-183 and 374-378: follow the parts below a node, creating what is missing
RECURSIVE Descend(_, _, _, _)
Descend(tree, current, parts, made) ==
    IF parts = <<>> THEN [tree |-> tree, current |-> current]
    ELSE LET existing == find(tree, current, Head(parts))
         IN  IF existing # 0
             THEN Descend(tree, existing, Tail(parts), made)
             ELSE Descend(SubElement(tree, current, Head(parts), made),
                          Len(tree) + 1, Tail(parts), made)

(***************************************************************************)
(* ExcelToKoboXML._create_nested_element                                   *)
(***************************************************************************)
\* a builder that leaves a field out when its value is missing
create_nested_element_SkipMissing(conv, tree, parent, path, v, fname) ==
    LET at == Descend(tree, parent, split(path, SL), "field")
        converted_value ==
            IF fname # <<>> THEN convert_label_to_name(conv, fname, v) ELSE v
        leaf == [at.tree EXCEPT ![at.current].src = fname]
    IN  IF ~isna(converted_value)
        THEN SetText(leaf, at.current, converted_value)
        ELSE tree

\* lines 158-199
create_nested_element(conv, tree, parent, path, v, fname) ==
    LET at == Descend(tree, parent, split(path, SL), "field")
        converted_value ==
            IF fname # <<>> THEN convert_label_to_name(conv, fname, v) ELSE v
        leaf == [at.tree EXCEPT ![at.current].src = fname]
    IN  IF ~isna(converted_value)
        THEN SetText(leaf, at.current, converted_value)
        ELSE SetText(leaf, at.current, <<>>)

(***************************************************************************)
(* ExcelToKoboXML._build_group_hierarchy                                   *)
(***************************************************************************)
\* the skips of the main hierarchy without the one for group-only fields
SkippedInMain_NoGroupOnly(conv, row, col_name) ==
    \/ col_name \notin DOMAIN row
    \/ col_name = UuidCol \/ startswith(col_name, <<"_">>) \/ col_name = DeprecatedCol

\* the skips of the main hierarchy without the one for metadata columns
SkippedInMain_NoMetadata(conv, row, col_name) ==
    \/ col_name \notin DOMAIN row
    \/ col_name \in conv.group_only_fields

\* lines 212-223
SkippedInMain(conv, row, col_name) ==
    \/ col_name \notin DOMAIN row
    \/ col_name = UuidCol \/ startswith(col_name, <<"_">>) \/ col_name = DeprecatedCol
    \/ col_name \in conv.group_only_fields

RECURSIVE BuildFrom(_, _, _, _, _, _)
BuildFrom(conv, tree, row, parent, path_prefix, i) ==
    IF i > Len(conv.col_to_path) THEN tree
    ELSE LET col_name == conv.col_to_path[i].k
             path == conv.col_to_path[i].v
             relative_path ==
                 IF path_prefix # <<>>
                 THEN lstripSlash(SubSeq(path, Len(path_prefix) + 1, Len(path)))
                 ELSE path
             wanted ==
                 /\ ~SkippedInMain(conv, row, col_name)
                 /\ path # <<>>
                 /\ ~(path_prefix # <<>> /\ ~startswith(path, path_prefix))
         IN  BuildFrom(conv,
                       IF wanted
                       THEN create_nested_element(conv, tree, parent, relative_path,
                                                  row[col_name], col_name)
                       ELSE tree,
                       row, parent, path_prefix, i + 1)

\* a builder that goes through the mapping last field first
build_group_hierarchy_Reversed(conv, tree, row, parent, path_prefix) ==
    LET n == Len(conv.col_to_path)
        backwards == [conv EXCEPT !.col_to_path = [i \in 1..n |-> conv.col_to_path[n + 1 - i]]]
    IN  BuildFrom(backwards, tree, row, parent, path_prefix, 1)

\* lines 201-238
build_group_hierarchy(conv, tree, row, parent, path_prefix) ==
    BuildFrom(conv, tree, row, parent, path_prefix, 1)

(***************************************************************************)
(* ExcelToKoboXML._add_repeat_group                                        *)
(***************************************************************************)
\* line 265
has_position(row) ==
    \E col \in DOMAIN row : ~startswith(col, <<"_">>) /\ contains(col, "position")

\* lines 276-294: the fields of one repeat instance
RECURSIVE FillInstance(_, _, _, _, _, _)
FillInstance(conv, tree, row, repeat_elem, repeat_path, i) ==
    IF i > Len(conv.col_to_path) THEN tree
    ELSE LET col_name == conv.col_to_path[i].k
             path == conv.col_to_path[i].v
             wanted ==
                 /\ col_name \in DOMAIN row /\ ~startswith(col_name, <<"_">>)
                 /\ col_name \notin conv.group_only_fields
                 /\ startswith(path, repeat_path \o <<SL>>)
             relative_path == SubSeq(path, Len(repeat_path) + 2, Len(path))
         IN  FillInstance(conv,
                          IF wanted
                          THEN create_nested_element(conv, tree, repeat_elem, relative_path,
                                                     row[col_name], col_name)
                          ELSE tree,
                          row, repeat_elem, repeat_path, i + 1)

\* lines 262-272: a fresh instance and, when due, its synthesized position
NewInstance(tree, parent, repeat_name, repeat_path, row, idx) ==
    LET withElem == SubElement(tree, parent, repeat_name, "instance")
        repeat_elem == Len(tree) + 1
        position_col == repeat_path \o <<SL>> \o PositionTag
    IN  IF has_position(row)
           /\ (position_col \notin DOMAIN row \/ isna(row[position_col]))
        THEN SetText(SubElement(withElem, repeat_elem, PositionTag, "position"),
                     repeat_elem + 1, str(idx))
        ELSE withElem

RECURSIVE AddInstances(_, _, _, _, _, _, _)
AddInstances(conv, tree, parent, repeat_name, repeat_path, rows, idx) ==
    IF idx > Len(rows) THEN tree
    ELSE LET fresh == NewInstance(tree, parent, repeat_name, repeat_path, rows[idx], idx)
         IN  AddInstances(conv,
                          FillInstance(conv, fresh, rows[idx], Len(tree) + 1, repeat_path, 1),
                          parent, repeat_name, repeat_path, rows, idx + 1)

\* a repeat builder that emits the matching rows last row first
add_repeat_group_Reversed(conv, tree, parent, repeat_name, repeat_data, uuid) ==
    LET matched == RowsOf(repeat_data, uuid)
        submission_repeats == [i \in 1..Len(matched) |-> matched[Len(matched) + 1 - i]]
        repeat_path == IF repeat_name \in keys(conv.col_to_path)
                       THEN get(conv.col_to_path, repeat_name) ELSE repeat_name
    IN  IF submission_repeats = <<>> THEN tree
        ELSE AddInstances(conv, tree, parent, repeat_name, repeat_path,
                          submission_repeats, 1)

\* lines 240-294
add_repeat_group(conv, tree, parent, repeat_name, repeat_data, uuid) ==
    LET submission_repeats == RowsOf(repeat_data, uuid)
        repeat_path == IF repeat_name \in keys(conv.col_to_path)
                       THEN get(conv.col_to_path, repeat_name) ELSE repeat_name
    IN  IF submission_repeats = <<>> THEN tree
        ELSE AddInstances(conv, tree, parent, repeat_name, repeat_path,
                          submission_repeats, 1)

(***************************************************************************)
(* ExcelToKoboXML.__init__                                                 *)
(***************************************************************************)
DefaultFormId == <<"aiBgJcvz5AFHB54fKpG2y5">>
DefaultVersionId == <<"vdjkkW3B5b9mKHZVoDPYbA">>

\* mapping_data is [fields, choices] (new format) or [fields] alone (old format)
Converter(mapping_data, sheet_names, sheets, formhub_uuid, use_labels) ==
    [ form_id |-> DefaultFormId,
      formhub_uuid |-> formhub_uuid,
      form_version_id |-> DefaultVersionId,
      use_labels |-> use_labels,
      col_to_path |-> mapping_data.fields,
      choice_mappings |-> IF "choices" \in DOMAIN mapping_data
                          THEN mapping_data.choices ELSE <<>>,
      group_only_fields |-> group_only_fields(mapping_data.fields),
      sheet_names |-> sheet_names,
      sheets |-> sheets ]

\* the file at mapping_path: absent, or a text that is the JSON of "data" when
\* "valid" and a text json.load refuses otherwise (the JSON of "data" cut short)
MissingFile == [exists |-> FALSE]
JsonFile(mapping_data) == [exists |-> TRUE, valid |-> TRUE, data |-> mapping_data]
BrokenFile(mapping_data) == [exists |-> TRUE, valid |-> FALSE, data |-> mapping_data]

Raised(error) == [raised |-> error]
IsRaised(outcome) == DOMAIN outcome = {"raised"}

\* a constructor that takes what it can read of a file that is no JSON
ExcelToKoboXML_AcceptPartial(file, sheet_names, sheets, formhub_uuid, use_labels) ==
    IF ~file.exists THEN Raised("FileNotFoundError")
    ELSE Converter(file.data, sheet_names, sheets, formhub_uuid, use_labels)

\* lines 55-92: open() and json.load() raise out of the constructor
ExcelToKoboXML(file, sheet_names, sheets, formhub_uuid, use_labels) ==
    IF ~file.exists THEN Raised("FileNotFoundError")
    ELSE IF ~file.valid THEN Raised("JSONDecodeError")
    ELSE Converter(file.data, sheet_names, sheets, formhub_uuid, use_labels)

(***************************************************************************)
(* ExcelToKoboXML.convert_submission, step by step                         *)
(***************************************************************************)
\* line 330: submission_row.iloc[0]
SubmissionRow(conv, uuid) == RowsOf(conv.sheets[DataSheet], uuid)[1]

\* lines 340-350: the root element and the optional formhub block
\* a root that takes an empty hub identifier for a configured one
BuildRoot_AnyHub(conv, version) ==
    LET root == [Element(conv.form_id, 0, "root") EXCEPT
                    !.attrib = << [k |-> <<"id">>, v |-> conv.form_id],
                                  [k |-> <<"version">>, v |-> version] >>]
    IN  IF conv.formhub_uuid # None
        THEN SetText(SubElement(SubElement(<<root>>, Root, <<"formhub">>, "formhub"),
                                2, <<"uuid">>, "formhub"),
                     3, conv.formhub_uuid)
        ELSE <<root>>

BuildRoot(conv, version) ==
    LET root == [Element(conv.form_id, 0, "root") EXCEPT
                    !.attrib = << [k |-> <<"id">>, v |-> conv.form_id],
                                  [k |-> <<"version">>, v |-> version] >>]
    IN  IF conv.formhub_uuid # None /\ conv.formhub_uuid # <<>>
        THEN SetText(SubElement(SubElement(<<root>>, Root, <<"formhub">>, "formhub"),
                                2, <<"uuid">>, "formhub"),
                     3, conv.formhub_uuid)
        ELSE <<root>>

\* lines 357-381: one iteration of the loop over the sheets
RepeatParentPath(conv, sheet_name) ==
    LET path == get(conv.col_to_path, sheet_name)
    IN  IF contains(path, SL)
        THEN LET last == CHOOSE i \in 1..Len(path) :
                            path[i] = SL /\ \A j \in (i + 1)..Len(path) : path[j] # SL
             IN  SubSeq(path, 1, last - 1)
        ELSE <<>>

\* an assembler that attaches every repeat group to the root
AttachSheet_AtRoot(conv, t, sheet_name, uuid) ==
    IF sheet_name = DataSheet THEN t
    ELSE IF UuidCol \notin conv.sheets[sheet_name].columns THEN t
    ELSE add_repeat_group(conv, t, Root, sheet_name, conv.sheets[sheet_name], uuid)

\* an assembler that walks to the parent before it looks at the columns
AttachSheet_WalkFirst(conv, t, sheet_name, uuid) ==
    IF sheet_name = DataSheet THEN t
    ELSE LET parent_path == IF sheet_name \in keys(conv.col_to_path)
                            THEN RepeatParentPath(conv, sheet_name) ELSE <<>>
             at == IF parent_path # <<>>
                   THEN Descend(t, Root, split(parent_path, SL), "walk")
                   ELSE [tree |-> t, current |-> Root]
         IN  IF UuidCol \notin conv.sheets[sheet_name].columns THEN at.tree
             ELSE add_repeat_group(conv, at.tree, at.current, sheet_name,
                                   conv.sheets[sheet_name], uuid)

AttachSheet(conv, t, sheet_name, uuid) ==
    IF sheet_name = DataSheet THEN t
    ELSE IF UuidCol \notin conv.sheets[sheet_name].columns THEN t
    ELSE LET parent_path == IF sheet_name \in keys(conv.col_to_path)
                            THEN RepeatParentPath(conv, sheet_name) ELSE <<>>
             at == IF parent_path # <<>>
                   THEN Descend(t, Root, split(parent_path, SL), "walk")
                   ELSE [tree |-> t, current |-> Root]
         IN  add_repeat_group(conv, at.tree, at.current, sheet_name,
                              conv.sheets[sheet_name], uuid)

UuidPrefix == <<"uuid:">>
VersionTag == <<"_", "_", "version", "_", "_">>

\* a trailer whose identity block comes before the version marker
Trailer_MetaFirst(conv, t, uuid) ==
    LET meta == Len(t) + 1
        t1 == SetText(SubElement(SubElement(t, Root, <<"meta">>, "trailer"),
                                 meta, <<"instanceID">>, "trailer"),
                      meta + 1, UuidPrefix \o uuid)
    IN  SetText(SubElement(t1, Root, VersionTag, "trailer"), meta + 2, conv.form_version_id)

\* a trailer that prefixes the edit-lineage value without looking at it
Trailer_AlwaysPrefix(conv, t, uuid) ==
    LET submission_row == SubmissionRow(conv, uuid)
        t1 == SetText(SubElement(t, Root, VersionTag, "trailer"),
                      Len(t) + 1, conv.form_version_id)
        meta == Len(t1) + 1
        t2 == SubElement(t1, Root, <<"meta">>, "trailer")
        t3 == SetText(SubElement(t2, meta, <<"instanceID">>, "trailer"),
                      meta + 1, UuidPrefix \o uuid)
    IN  IF DeprecatedCol \in DOMAIN submission_row /\ ~isna(submission_row[DeprecatedCol])
        THEN SetText(SubElement(t3, meta, <<"deprecatedID">>, "trailer"),
                     meta + 2, UuidPrefix \o submission_row[DeprecatedCol])
        ELSE t3

\* lines 383-400: __version__, meta/instanceID and meta/deprecatedID
Trailer(conv, t, uuid) ==
    LET submission_row == SubmissionRow(conv, uuid)
        t1 == SetText(SubElement(t, Root, VersionTag, "trailer"),
                      Len(t) + 1, conv.form_version_id)
        meta == Len(t1) + 1
        t2 == SubElement(t1, Root, <<"meta">>, "trailer")
        t3 == SetText(SubElement(t2, meta, <<"instanceID">>, "trailer"),
                      meta + 1, UuidPrefix \o uuid)
    IN  IF DeprecatedCol \in DOMAIN submission_row /\ ~isna(submission_row[DeprecatedCol])
        THEN LET deprecated_value == submission_row[DeprecatedCol]
             IN  SetText(SubElement(t3, meta, <<"deprecatedID">>, "trailer"),
                         meta + 2,
                         IF ~startswith(deprecated_value, UuidPrefix)
                         THEN UuidPrefix \o deprecated_value
                         ELSE deprecated_value)
        ELSE t3

\* lines 296-308 and 402-409: the document that the tree serializes to.  A
\* missing text and an empty text print alike; minidom refuses a document
\* with a control character or with a tag that is no XML name.
Ctrl == "^@"
ValidName(tag) ==
    /\ tag # <<>>
    /\ \A i \in 1..Len(tag) : tag[i] \notin {SP, Ctrl, SL}
    /\ \A d \in 1..Len(Digit) : tag[1] # Digit[d]

WellFormed(t) ==
    \A i \in 1..Len(t) :
        /\ ValidName(t[i].tag)
        /\ t[i].text # None => ~contains(t[i].text, Ctrl)

Document(t) ==
    [i \in 1..Len(t) |->
        [tag |-> t[i].tag, parent |-> t[i].parent, attrib |-> t[i].attrib,
         text |-> IF t[i].text = None THEN <<>> ELSE t[i].text]]

\* lines 340-409 as one function of the converter, the identifier and the
\* version: the document convert_submission returns for a record it can convert
RECURSIVE AttachAll(_, _, _, _)
AttachAll(conv, t, uuid, i) ==
    IF i > Len(conv.sheet_names) THEN t
    ELSE AttachAll(conv, AttachSheet(conv, t, conv.sheet_names[i], uuid), uuid, i + 1)

convert_submission(conv, uuid, version) ==
    LET main == build_group_hierarchy(conv, BuildRoot(conv, version),
                                      SubmissionRow(conv, uuid), Root, <<>>)
    IN  Document(Trailer(conv, AttachAll(conv, main, uuid, 1), uuid))

(***************************************************************************)
(* Workbooks and mapping files the converter is constructed from           *)
(***************************************************************************)
MaxRecs == 2     \* rows of the main table
MaxRows == 2     \* rows of every other table

Entry(key, val) == [k |-> key, v |-> val]
Path(parts) == join(<<SL>>, parts)
Uuid(i) == <<"u", Digit[i + 1]>>

Grp == <<"g">>
Fx == <<"x">>
Fy == <<"y">>
Rep == <<"T">>
Fa == <<"a">>
Sub == <<"S">>
Fb == <<"b">>
Fq == <<"q">>
Fm == <<"m">>
Note == <<"_", "n">>

Red == <<"R">>
Blue == <<"B">>

\* a sheet as a scenario describes it: its name, whether it has the
\* _submission__uuid column, and the rows (without identifier) it may hold
SheetSpec(name, keyed, templates) ==
    [name |-> name, keyed |-> keyed, templates |-> templates]

\* groups and a repeat group below a group, as generate_mapping.py writes them
GroupsMapping ==
    [fields |-> << Entry(Grp, Grp), Entry(Fx, Path(<<Grp, Fx>>)),
                   Entry(Fy, Path(<<Grp, Fy>>)),
                   Entry(Rep, Path(<<Grp, Rep>>)), Entry(Fa, Path(<<Grp, Rep, Fa>>)),
                   Entry(Note, Path(<<Grp, Note>>)) >>,
     choices |-> <<>>]

ScGroups ==
    [mapping_data |-> GroupsMapping, use_labels |-> FALSE, formhub_uuid |-> <<"hub">>,
     missing_ids |-> FALSE,
     sheets |-> << SheetSpec(DataSheet, TRUE,
                      {(Grp :> Red) @@ (Fx :> Blue) @@ (Fy :> Red) @@ (Fq :> Red)
                          @@ (Note :> Red),
                       (Grp :> NaN) @@ (Fx :> NaN) @@ (Fy :> Blue) @@ (Fq :> NaN)
                          @@ (Note :> Red)}),
                   SheetSpec(Rep, TRUE, {(Fa :> Red), (Fa :> NaN)}) >>]

\* the same mapping, the main table also has the column of a repeat field
ScRepeatColumnInMain ==
    [mapping_data |-> GroupsMapping, use_labels |-> FALSE, formhub_uuid |-> None,
     missing_ids |-> FALSE,
     sheets |-> << SheetSpec(DataSheet, TRUE, {(Fx :> Red) @@ (Fa :> Blue)}),
                   SheetSpec(Rep, TRUE, {(Fa :> Red), (Fa :> Blue)}) >>]

\* two columns mapped to the path of a group (old format: fields alone)
ScSharedPath ==
    [mapping_data |-> [fields |-> << Entry(Grp, Grp), Entry(Fx, Path(<<Grp, Fx>>)), Entry(Fy, Grp) >>],
     use_labels |-> FALSE, formhub_uuid |-> None, missing_ids |-> FALSE,
     sheets |-> << SheetSpec(DataSheet, TRUE, {(Grp :> Red) @@ (Fx :> Blue) @@ (Fy :> Red),
                                                (Grp :> Red) @@ (Fx :> Blue) @@ (Fy :> NaN)}) >>]

\* a repeat table whose position column is a mapped field
ScPositionField ==
    [mapping_data |-> [fields |-> << Entry(Rep, Rep), Entry(PositionTag, Path(<<Rep, PositionTag>>)),
                                     Entry(Fa, Path(<<Rep, Fa>>)) >>,
                       choices |-> <<>>],
     use_labels |-> FALSE, formhub_uuid |-> None, missing_ids |-> FALSE,
     sheets |-> << SheetSpec(DataSheet, TRUE, {(Fq :> Red)}),
                   SheetSpec(Rep, TRUE, {(PositionTag :> NaN) @@ (Fa :> Red),
                                       (PositionTag :> <<"7">>) @@ (Fa :> Blue)}) >>]

\* a repeat table whose position column carries the full path and is not mapped
ScPositionColumn ==
    [mapping_data |-> [fields |-> << Entry(Rep, Rep), Entry(Fa, Path(<<Rep, Fa>>)) >>,
                       choices |-> <<>>],
     use_labels |-> FALSE, formhub_uuid |-> None, missing_ids |-> FALSE,
     sheets |-> << SheetSpec(DataSheet, TRUE, {(Fq :> Red)}),
                   SheetSpec(Rep, TRUE, {(Path(<<Rep, PositionTag>>) :> NaN) @@ (Fa :> Red),
                                       (Path(<<Rep, PositionTag>>) :> <<"7">>) @@ (Fa :> Blue)}) >>]

\* a repeat table whose position column is named "position" and is not mapped
ScPositionUnmapped ==
    [mapping_data |-> [fields |-> << Entry(Rep, Rep), Entry(Fa, Path(<<Rep, Fa>>)) >>,
                       choices |-> <<>>],
     use_labels |-> FALSE, formhub_uuid |-> None, missing_ids |-> FALSE,
     sheets |-> << SheetSpec(DataSheet, TRUE, {(Fq :> Red)}),
                   SheetSpec(Rep, TRUE, {(PositionTag :> NaN) @@ (Fa :> Red),
                                       (PositionTag :> <<"7">>) @@ (Fa :> Blue)}) >>]

\* a repeat group inside a repeat group
ScNestedRepeat ==
    [mapping_data |-> [fields |-> << Entry(Rep, Rep), Entry(Fa, Path(<<Rep, Fa>>)),
                                     Entry(Sub, Path(<<Rep, Sub>>)), Entry(Fb, Path(<<Rep, Sub, Fb>>)) >>,
                       choices |-> <<>>],
     use_labels |-> FALSE, formhub_uuid |-> None, missing_ids |-> FALSE,
     sheets |-> << SheetSpec(DataSheet, TRUE, {(Fq :> Red)}),
                   SheetSpec(Rep, TRUE, {(Fa :> Red)}),
                   SheetSpec(Sub, TRUE, {(Fb :> Blue)}) >>]

\* choice labels, a cell with a control character, rows without identifier,
\* a field below meta and an edit-lineage column
ScLabels ==
    [mapping_data |-> [fields |-> << Entry(Fx, Fx), Entry(Fm, Path(<<(<<"meta">>), Fm>>)) >>,
                       choices |-> << Entry(Fx, << Entry(Red, <<"r">>), Entry(Blue, <<"b">>) >>) >>],
     use_labels |-> TRUE, formhub_uuid |-> <<"hub">>, missing_ids |-> TRUE,
     sheets |-> << SheetSpec(DataSheet, TRUE,
                      {(Fx :> Red) @@ (Fm :> Red) @@ (DeprecatedCol :> NaN),
                       (Fx :> <<"R", ";", "B">>) @@ (Fm :> NaN) @@ (DeprecatedCol :> <<"d">>),
                       (Fx :> Blue) @@ (Fm :> Red) @@ (DeprecatedCol :> UuidPrefix \o <<"d">>),
                       (Fx :> <<Ctrl>>) @@ (Fm :> Red) @@ (DeprecatedCol :> NaN)}) >>]

\* two leaf fields mapped to one path (old format)
ScAliasedLeaf ==
    [mapping_data |-> [fields |-> << Entry(Fx, Fm), Entry(Fy, Fm) >>],
     use_labels |-> FALSE, formhub_uuid |-> None, missing_ids |-> FALSE,
     sheets |-> << SheetSpec(DataSheet, TRUE, {(Fx :> NaN) @@ (Fy :> Red),
                                                (Fx :> Red) @@ (Fy :> NaN)}) >>]

\* a workbook without the main table
ScNoMainTable ==
    [mapping_data |-> [fields |-> << Entry(Rep, Rep), Entry(Fa, Path(<<Rep, Fa>>)) >>],
     use_labels |-> FALSE, formhub_uuid |-> None, missing_ids |-> FALSE,
     sheets |-> << SheetSpec(Rep, TRUE, {(Fa :> Red)}) >>]

\* a repeat group two levels down: below a group of the main table and a
\* group that no field of the main table makes
Deep == <<"h">>

ScDeepRepeat ==
    [mapping_data |-> [fields |-> << Entry(Grp, Grp), Entry(Fx, Path(<<Grp, Fx>>)),
                                     Entry(Rep, Path(<<Grp, Deep, Rep>>)),
                                     Entry(Fa, Path(<<Grp, Deep, Rep, Fa>>)) >>,
                       choices |-> <<>>],
     use_labels |-> FALSE, formhub_uuid |-> <<>>, missing_ids |-> FALSE,
     sheets |-> << SheetSpec(DataSheet, TRUE, {(Fx :> Red)}),
                   SheetSpec(Rep, TRUE, {(Fa :> Red)}) >>]

\* a group marker declared before the fields of another group, and a
\* mapped field the workbook has no column for
ScInterleaved ==
    [mapping_data |-> [fields |-> << Entry(Deep, Deep), Entry(Fx, Path(<<Grp, Fx>>)),
                                     Entry(Fy, Path(<<Deep, Fy>>)), Entry(Fq, Fq) >>,
                       choices |-> <<>>],
     use_labels |-> FALSE, formhub_uuid |-> <<"hub">>, missing_ids |-> FALSE,
     sheets |-> << SheetSpec(DataSheet, TRUE, {(Fx :> Red) @@ (Fy :> Blue)}) >>]

\* a table without the identifier column, mapped like a repeat group
Lookup == <<"L">>

ScReference ==
    [mapping_data |-> [fields |-> << Entry(Grp, Grp), Entry(Fx, Path(<<Grp, Fx>>)),
                                     Entry(Lookup, Path(<<Grp, Deep, Lookup>>)),
                                     Entry(Fa, Path(<<Grp, Deep, Lookup, Fa>>)) >>,
                       choices |-> <<>>],
     use_labels |-> FALSE, formhub_uuid |-> None, missing_ids |-> FALSE,
     sheets |-> << SheetSpec(DataSheet, TRUE, {(Fx :> Red)}),
                   SheetSpec(Lookup, FALSE, {(Fa :> Red)}) >>]

Scenarios == {ScGroups, ScRepeatColumnInMain, ScSharedPath, ScPositionField,
              ScPositionColumn, ScPositionUnmapped, ScNestedRepeat, ScLabels, ScAliasedLeaf,
              ScNoMainTable, ScDeepRepeat, ScInterleaved, ScReference}

WithUuid(template, u) ==
    [c \in DOMAIN template \cup {UuidCol} |-> IF c = UuidCol THEN u ELSE template[c]]

\* the main table: row i carries its own identifier, or none when ids may be missing
MainTables(spec, missing_ids) ==
    LET ids == IF missing_ids THEN {TRUE, FALSE} ELSE {TRUE}
        columns == UNION {DOMAIN t : t \in spec.templates} \cup {UuidCol}
    IN  UNION { { [columns |-> columns,
                   rows |-> [i \in 1..m |->
                               WithUuid(f[i][1], IF f[i][2] THEN Uuid(i) ELSE NaN)]]
                  : f \in [1..m -> spec.templates \X ids] }
                : m \in 1..MaxRecs }

\* a repeat table: every row belongs to the first or the second record
RepeatTables(spec) ==
    LET columns == UNION {DOMAIN t : t \in spec.templates} \cup {UuidCol}
    IN  UNION { { [columns |-> columns,
                   rows |-> [i \in 1..m |-> WithUuid(f[i][1], Uuid(f[i][2]))]]
                  : f \in [1..m -> spec.templates \X {1, 2}] }
                : m \in 0..MaxRows }

\* a reference table: no identifier column
ReferenceTables(spec) ==
    UNION { { [columns |-> UNION {DOMAIN t : t \in spec.templates}, rows |-> f]
              : f \in [1..m -> spec.templates] }
            : m \in 0..MaxRows }

TablesOf(spec, missing_ids) ==
    IF spec.name = DataSheet THEN MainTables(spec, missing_ids)
    ELSE IF spec.keyed THEN RepeatTables(spec)
    ELSE ReferenceTables(spec)

\* all workbooks of a scenario: one table for every sheet
RECURSIVE TableLists(_, _)
TableLists(sc, i) ==
    IF i = 0 THEN {<<>>}
    ELSE {Append(ts, t) : ts \in TableLists(sc, i - 1),
                          t \in TablesOf(sc.sheets[i], sc.missing_ids)}

SheetNames(sc) == [i \in 1..Len(sc.sheets) |-> sc.sheets[i].name]

Workbook(sc, tables) ==
    [name \in {sc.sheets[i].name : i \in 1..Len(sc.sheets)} |->
        tables[CHOOSE i \in 1..Len(sc.sheets) : sc.sheets[i].name = name]]

Converters ==
    UNION { { Converter(sc.mapping_data, SheetNames(sc), Workbook(sc, tables),
                        sc.formhub_uuid, sc.use_labels)
              : tables \in TableLists(sc, Len(sc.sheets)) }
            : sc \in Scenarios }

\* the mapping files a scenario is run with
MappingFiles(sc) ==
    {MissingFile, JsonFile(sc.mapping_data), BrokenFile(sc.mapping_data)}

\* every construction: the mapping file and what the constructor gave
Constructions ==
    UNION { { [file |-> f,
               outcome |-> ExcelToKoboXML(f, SheetNames(sc), Workbook(sc, tables),
                                          sc.formhub_uuid, sc.use_labels)]
              : tables \in TableLists(sc, Len(sc.sheets)), f \in MappingFiles(sc) }
            : sc \in Scenarios }

(***************************************************************************)
(* convert_all driving convert_submission                                  *)
(***************************************************************************)
Timestamps == {<<"t1">>, <<"t2">>}
FormVersions == {None, <<"v9">>}

\* a directory that can be created and written, and one that cannot
OutDir == <<"out">>
ReadOnlyDir == <<"ro">>
Writable(dir) == dir = OutDir

\* the (form_version, output_dir) arguments convert_all is called with
Calls ==
    {[form_version |-> fv, output_dir |-> None] : fv \in FormVersions}
    \cup {[form_version |-> <<"v9">>, output_dir |-> d] : d \in {OutDir, ReadOnlyDir}}

ResolverIdle ==
    /\ value = None /\ field_name = None /\ once = None /\ twice = None /\ cpc = "off"

SubmitIdle ==
    /\ argv = <<>> /\ config_file = None /\ config = <<>> /\ args = <<>> /\ mpc = "off"
    /\ fetched = FALSE /\ disk = {} /\ temp_content_file = None /\ temp_mapping_file = None
    /\ mapping_path = None /\ submissions = <<>> /\ attempts = <<>>
    /\ successful = <<>> /\ failed = <<>>

Init ==
    /\ \E c \in Constructions :
          /\ mapping_file = c.file
          /\ self = c.outcome
    /\ pc = IF IsRaised(self) THEN "raised" ELSE "idle"
    /\ form_version = None
    /\ output_dir = None
    /\ files = <<>>
    /\ uuids = <<>>
    /\ cursor = 0
    /\ results = <<>>
    /\ errors = <<>>
    /\ etree = <<>>
    /\ sheet_i = 0
    /\ ResolverIdle
    /\ SubmitIdle

\* lines 422-425; the converter can be asked again after it returned
ConvertAll ==
    /\ pc \in {"idle", "returned"}
    /\ \E call \in Calls :
          /\ form_version' = call.form_version
          /\ output_dir' = call.output_dir
    /\ IF DataSheet \in DOMAIN self.sheets /\ UuidCol \in self.sheets[DataSheet].columns
       THEN /\ uuids' = unique([i \in 1..Len(self.sheets[DataSheet].rows) |->
                                   self.sheets[DataSheet].rows[i][UuidCol]])
            /\ cursor' = 1
            /\ pc' = "loop"
       ELSE /\ pc' = "raised"
            /\ UNCHANGED <<uuids, cursor>>
    /\ results' = <<>>
    /\ errors' = <<>>
    /\ UNCHANGED <<mapping_file, self, files, etree, sheet_i>>
    /\ UNCHANGED resolverVars
    /\ UNCHANGED submitVars

CurrentUuid == uuids[cursor]

\* line 437
FileName(uuid) == uuid \o <<".xml">>

\* lines 427-429 and 323-350: the next identifier; its row is looked up and
\* the root is built, or the lookup raises and convert_all reports it
StartRecord ==
    /\ pc = "loop" /\ cursor <= Len(uuids)
    /\ IF RowsOf(self.sheets[DataSheet], CurrentUuid) = <<>>
       THEN /\ errors' = Append(errors, CurrentUuid)
            /\ cursor' = cursor + 1
            /\ UNCHANGED <<pc, etree>>
       ELSE /\ \E now \in Timestamps :
                 etree' = BuildRoot(self,
                             IF form_version = None
                             THEN <<"8", SP, "(">> \o now \o <<")">>
                             ELSE form_version)
            /\ pc' = "RootBuilt"
            /\ UNCHANGED <<errors, cursor>>
    /\ UNCHANGED <<mapping_file, self, form_version, output_dir, files, uuids, results, sheet_i>>
    /\ UNCHANGED resolverVars
    /\ UNCHANGED submitVars

\* line 353
PopulateMain ==
    /\ pc = "RootBuilt"
    /\ etree' = build_group_hierarchy(self, etree, SubmissionRow(self, CurrentUuid),
                                      Root, <<>>)
    /\ sheet_i' = 1
    /\ pc' = "MainPopulated"
    /\ UNCHANGED <<mapping_file, self, form_version, output_dir, files, uuids, cursor, results, errors>>
    /\ UNCHANGED resolverVars
    /\ UNCHANGED submitVars

\* an assembler that takes the rows it has attached out of the loaded table
AttachRepeats_Consume ==
    /\ pc = "MainPopulated"
    /\ etree' = AttachSheet(self, etree, self.sheet_names[sheet_i], CurrentUuid)
    /\ self' = [self EXCEPT !.sheets[self.sheet_names[sheet_i]].rows =
                    SelectSeq(@, LAMBDA r : ~CellEq(r[UuidCol], CurrentUuid))]
    /\ sheet_i' = sheet_i + 1
    /\ pc' = IF sheet_i = Len(self.sheet_names) THEN "RepeatsAttached" ELSE "MainPopulated"
    /\ UNCHANGED <<mapping_file, form_version, output_dir, files, uuids, cursor, results,
                   errors>>
    /\ UNCHANGED resolverVars
    /\ UNCHANGED submitVars

\* lines 356-381, one sheet at a time
AttachRepeats ==
    /\ pc = "MainPopulated"
    /\ etree' = AttachSheet(self, etree, self.sheet_names[sheet_i], CurrentUuid)
    /\ sheet_i' = sheet_i + 1
    /\ pc' = IF sheet_i = Len(self.sheet_names) THEN "RepeatsAttached" ELSE "MainPopulated"
    /\ UNCHANGED <<mapping_file, self, form_version, output_dir, files, uuids, cursor, results, errors>>
    /\ UNCHANGED resolverVars
    /\ UNCHANGED submitVars

\* lines 383-400
AppendTrailer ==
    /\ pc = "RepeatsAttached"
    /\ etree' = Trailer(self, etree, CurrentUuid)
    /\ pc' = "TrailerAppended"
    /\ UNCHANGED <<mapping_file, self, form_version, output_dir, files, uuids, cursor, results, errors, sheet_i>>
    /\ UNCHANGED resolverVars
    /\ UNCHANGED submitVars

\* a batch driver that lets the failure of a record end the batch
Serialize_Abort ==
    /\ pc = "TrailerAppended"
    /\ IF WellFormed(etree) /\ (output_dir = None \/ Writable(output_dir))
       THEN /\ results' = put(results, CurrentUuid, Document(etree))
            /\ files' = IF output_dir = None THEN files
                        ELSE put(files, FileName(CurrentUuid), Document(etree))
            /\ cursor' = cursor + 1
            /\ pc' = "loop"
       ELSE /\ pc' = "raised"
            /\ results' = IF WellFormed(etree)
                          THEN put(results, CurrentUuid, Document(etree)) ELSE results
            /\ UNCHANGED <<files, cursor>>
    /\ UNCHANGED <<mapping_file, self, form_version, output_dir, uuids, errors, etree, sheet_i>>
    /\ UNCHANGED resolverVars
    /\ UNCHANGED submitVars

\* lines 402-409 and 429-444: the document is returned, stored, and written
\* to <output_dir>/<uuid>.xml when a directory is given; when serialization or
\* the write raises, convert_all reports the identifier and goes on
Serialize ==
    /\ pc = "TrailerAppended"
    /\ IF ~WellFormed(etree)
       THEN /\ errors' = Append(errors, CurrentUuid)
            /\ UNCHANGED <<results, files>>
       ELSE /\ results' = put(results, CurrentUuid, Document(etree))
            /\ IF output_dir = None
               THEN UNCHANGED <<files, errors>>
               ELSE IF Writable(output_dir)
                    THEN /\ files' = put(files, FileName(CurrentUuid), Document(etree))
                         /\ UNCHANGED errors
                    ELSE /\ errors' = Append(errors, CurrentUuid)
                         /\ UNCHANGED files
    /\ cursor' = cursor + 1
    /\ pc' = "loop"
    /\ UNCHANGED <<mapping_file, self, form_version, output_dir, uuids, etree, sheet_i>>
    /\ UNCHANGED resolverVars
    /\ UNCHANGED submitVars

\* line 446
ReturnResults ==
    /\ pc = "loop" /\ cursor > Len(uuids)
    /\ pc' = "returned"
    /\ UNCHANGED <<mapping_file, self, form_version, output_dir, files, uuids, cursor, results, errors, etree, sheet_i>>
    /\ UNCHANGED resolverVars
    /\ UNCHANGED submitVars

Next ==
    \/ ConvertAll
    \/ StartRecord
    \/ PopulateMain
    \/ AttachRepeats
    \/ AppendTrailer
    \/ Serialize
    \/ ReturnResults

Spec == Init /\ [][Next]_vars

(***************************************************************************)
(* Vocabulary of the conversion claims                                     *)
(***************************************************************************)
Range(f) == {f[i] : i \in DOMAIN f}
TextBearing(node) == node.text # None /\ node.text # <<>>

\* the tags from below the root down to node i
RECURSIVE TagPath(_, _)
TagPath(t, i) == IF t[i].parent = 0 THEN <<>> ELSE Append(TagPath(t, t[i].parent), t[i].tag)

\* the children of a node in document order
RECURSIVE Ascending(_)
Ascending(set) ==
    IF set = {} THEN <<>>
    ELSE LET least == CHOOSE i \in set : \A j \in set : i <= j
         IN  <<least>> \o Ascending(set \ {least})
ChildList(t, i) == Ascending(Children(t, i))

\* the repeat tables: sheets other than the main one with the identifier column
RepeatSheets ==
    {name \in Range(self.sheet_names) :
        name # DataSheet /\ UuidCol \in self.sheets[name].columns}

Tagged(t, tag) == {i \in 1..Len(t) : t[i].tag = tag}

\* C1: the document of a record holds exactly as many elements named after a
\* repeat table as the table has rows with the record's identifier.
C1_RepeatCount ==
    \A e \in Range(results) : \A name \in RepeatSheets :
        Cardinality(Tagged(e.v, name)) = Len(RowsOf(self.sheets[name], e.k))

\* C2: in the tree of a record no node has two children of the same name,
\* apart from repeat instances and the trailer the assembler appends itself:
\* a path segment shared by several fields is one node under its parent.
Merged(node) == node.made \notin {"instance", "trailer"}

C2_PrefixMerging ==
    \A i, j \in 1..Len(etree) :
        (i < j /\ etree[i].parent = etree[j].parent /\ etree[i].tag = etree[j].tag)
            => ~(Merged(etree[i]) /\ Merged(etree[j]))

\* two fields below the same group were written and a repeat group found it
C2_Witness ==
    /\ pc = "RepeatsAttached"
    /\ \E g \in 1..Len(etree) :
          /\ etree[g].tag = Grp /\ etree[g].made = "field"
          /\ \E i, j, r \in Children(etree, g) :
                /\ etree[i].src = Fx /\ etree[j].src = Fy
                /\ etree[r].made = "instance"

\* C3 as stated: no element at the path of a group-only field bears text.
GroupOnlyPaths ==
    {split(self.col_to_path[i].v, SL) :
        i \in {j \in 1..Len(self.col_to_path) :
                  self.col_to_path[j].k \in self.group_only_fields}}

C3_NoTextAtGroupPath ==
    \A i \in 1..Len(etree) :
        TagPath(etree, i) \in GroupOnlyPaths => ~TextBearing(etree[i])

\* C3 amended: no element takes its text from the column of a group-only
\* field, whatever the row holds there; text at such a field's path is
\* written for another field mapped there or by the assembler itself.
C3_GroupOnlyNeverWritten ==
    \A i \in 1..Len(etree) : etree[i].src \notin self.group_only_fields

\* the record's row holds a value in the column of a group-only field
C3_Witness ==
    /\ pc = "RepeatsAttached"
    /\ \E f \in self.group_only_fields :
          /\ f \in DOMAIN SubmissionRow(self, CurrentUuid)
          /\ ~isna(SubmissionRow(self, CurrentUuid)[f])
    /\ \E i \in 1..Len(etree) : TagPath(etree, i) \in GroupOnlyPaths

\* C8: when the rows of a repeat table supply no position value, the i-th
\* instance of a record carries the position i in the finished document.
PositionColumns(table) ==
    {c \in table.columns : ~startswith(c, <<"_">>) /\ contains(c, "position")}

Instances(t, name) == Ascending({i \in Tagged(t, name) : t[i].made = "instance"})

C8_SynthesizedPositions ==
    pc = "TrailerAppended" =>
        \A name \in RepeatSheets :
            LET table == self.sheets[name]
                rows == RowsOf(table, CurrentUuid)
                inst == Instances(etree, name)
            IN  (/\ PositionColumns(table) # {}
                 /\ \A r \in 1..Len(rows) : \A c \in PositionColumns(table) : isna(rows[r][c]))
                => \A r \in 1..Len(inst) :
                      \E q \in Children(etree, inst[r]) :
                          etree[q].tag = PositionTag /\ etree[q].text = str(r)

\* C9: a record that fails is reported and skipped, the batch goes on, and the
\* returned map holds a document for exactly the records that converted.
Written(row) ==
    {c \in DOMAIN row \cap keys(self.col_to_path) : ~SkippedInMain(self, row, c)}

Fails(u) ==
    \/ isna(u)
    \/ \E c \in Written(SubmissionRow(self, u)) : contains(SubmissionRow(self, u)[c], Ctrl)

C9_RecordIsolation ==
    /\ pc = "raised" => cursor = 0
    /\ pc = "returned" =>
          /\ keys(results) = {u \in Range(uuids) : ~Fails(u)}
          /\ {u \in Range(uuids) : Fails(u)} \subseteq Range(errors)
          /\ output_dir # ReadOnlyDir =>
                /\ Range(errors) = {u \in Range(uuids) : Fails(u)}
                /\ Len(results) + Len(errors) = Len(uuids)

\* a record failed and a later record of the batch has its document
C9_Witness ==
    /\ pc = "returned"
    /\ \E i, j \in 1..Len(uuids) :
          i < j /\ uuids[i] \in Range(errors) /\ uuids[j] \in keys(results)

\* C10: the last two children of the root of every document are __version__
\* (the form version id) and meta (instanceID = "uuid:" + identifier); every
\* other node of the document stands before them.
C10_Trailer ==
    \A e \in Range(results) :
        LET doc == e.v
            kids == ChildList(doc, Root)
            ver == kids[Len(kids) - 1]
            meta == kids[Len(kids)]
        IN  /\ Len(kids) >= 2
            /\ doc[ver].tag = VersionTag /\ doc[ver].text = self.form_version_id
            /\ doc[meta].tag = <<"meta">>
            /\ Children(doc, meta) # {}
            /\ doc[ChildList(doc, meta)[1]].tag = <<"instanceID">>
            /\ doc[ChildList(doc, meta)[1]].text = UuidPrefix \o e.k
            /\ meta = ver + 1
            /\ \A i \in 1..Len(doc) : i > meta => doc[i].parent = meta

\* a document with main fields and repeat instances before the trailer
C10_Witness ==
    \E e \in Range(results) :
        /\ Tagged(e.v, Rep) # {}
        /\ \E i \in 1..Len(e.v) : e.v[i].tag = Fx /\ e.v[i].text = Blue

\* C11: the identity block (the last child of the root) of a document holds a
\* deprecatedID node exactly when the record's row has a present edit-lineage
\* value; its text is that value with the "uuid:" prefix once: added when the
\* value does not start with it, left alone when it does.
IdentityBlock(doc) == LET kids == ChildList(doc, Root) IN kids[Len(kids)]

DeprecatedNodes(doc) ==
    {i \in Children(doc, IdentityBlock(doc)) : doc[i].tag = DeprecatedCol}

HasLineage(row) == DeprecatedCol \in DOMAIN row /\ ~isna(row[DeprecatedCol])

C11_DeprecatedId ==
    \A e \in Range(results) :
        LET row == SubmissionRow(self, e.k)
            nodes == DeprecatedNodes(e.v)
        IN  IF HasLineage(row)
            THEN /\ Cardinality(nodes) = 1
                 /\ \A i \in nodes :
                       /\ startswith(e.v[i].text, UuidPrefix)
                       /\ ~startswith(Tail(e.v[i].text), UuidPrefix)
                       /\ e.v[i].text = IF startswith(row[DeprecatedCol], UuidPrefix)
                                        THEN row[DeprecatedCol]
                                        ELSE UuidPrefix \o row[DeprecatedCol]
            ELSE nodes = {}

\* one batch gave a document to a record whose value has the prefix, to one
\* whose value lacks it and to one without a value
C11_Witness ==
    /\ pc = "returned"
    /\ \E a, b \in Range(results) :
          LET ra == SubmissionRow(self, a.k)
              rb == SubmissionRow(self, b.k)
          IN  /\ HasLineage(ra) /\ startswith(ra[DeprecatedCol], UuidPrefix)
              /\ DeprecatedCol \in DOMAIN rb /\ isna(rb[DeprecatedCol])
              /\ DeprecatedNodes(a.v) # {} /\ DeprecatedNodes(b.v) = {}

\* C12 as stated: for every written field of the record's main row and of its
\* repeat rows whose value is missing, the tree holds a node at the field's
\* path (below the root, or below the row's instance) with empty text.
RECURSIVE PathFrom(_, _, _)
PathFrom(t, anc, i) ==
    IF i = anc THEN <<>>
    ELSE IF t[i].parent = 0 THEN <<None>>
    ELSE Append(PathFrom(t, anc, t[i].parent), t[i].tag)

NodesAt(t, anc, path) ==
    {i \in 1..Len(t) : i # anc /\ PathFrom(t, anc, i) = split(path, SL)}

EmptyText(node) == node.text = <<>>

RepeatPath(name) ==
    IF name \in keys(self.col_to_path) THEN get(self.col_to_path, name) ELSE name

WrittenInRepeat(name, row) ==
    {c \in DOMAIN row \cap keys(self.col_to_path) :
        /\ ~startswith(c, <<"_">>)
        /\ c \notin self.group_only_fields
        /\ startswith(get(self.col_to_path, c), RepeatPath(name) \o <<SL>>)}

RelativePath(name, c) ==
    SubSeq(get(self.col_to_path, c), Len(RepeatPath(name)) + 2,
           Len(get(self.col_to_path, c)))

\* the missing values of the current record: <<ancestor, path, column>>
MissingLeaves ==
    LET row == SubmissionRow(self, CurrentUuid)
    IN  {<<Root, get(self.col_to_path, c), c>> : c \in {d \in Written(row) : isna(row[d])}}
        \cup UNION {
              LET rows == RowsOf(self.sheets[name], CurrentUuid)
                  inst == Instances(etree, name)
              IN  UNION {{<<inst[r], RelativePath(name, c), c>> :
                            c \in {d \in WrittenInRepeat(name, rows[r]) : isna(rows[r][d])}}
                         : r \in 1..Len(rows)}
              : name \in RepeatSheets}

C12_MissingLeafEmpty ==
    pc = "RepeatsAttached" =>
        \A m \in MissingLeaves :
            \E i \in NodesAt(etree, m[1], m[2]) : EmptyText(etree[i])

\* C12 amended: the node is there; its text is empty unless another field
\* of the mapping, mapped to the same path, wrote its value there afterwards.
Aliases(c, d) ==
    /\ d # c /\ d \in keys(self.col_to_path)
    /\ get(self.col_to_path, d) = get(self.col_to_path, c)

C12_MissingLeafKept ==
    pc = "RepeatsAttached" =>
        \A m \in MissingLeaves :
            \E i \in NodesAt(etree, m[1], m[2]) :
                EmptyText(etree[i]) \/ Aliases(m[3], etree[i].src)

\* a value is missing in the main row and in a repeat row of the record
C12_Witness ==
    /\ pc = "RepeatsAttached"
    /\ \E m \in MissingLeaves : m[1] = Root
    /\ \E m \in MissingLeaves : m[1] # Root

\* C13: once the main row is in the tree, the nodes that were given a value
\* stand at exactly the paths of the fields that are mapped, present in the
\* row, no metadata or identifier column and not group-only; every other
\* node below the root lies on the way to one of them (or is the formhub
\* block), so a column without mapping has no node.
MainFields(row) ==
    {c \in keys(self.col_to_path) :
        /\ c \in DOMAIN row
        /\ ~startswith(c, <<"_">>) /\ c # DeprecatedCol
        /\ c \notin self.group_only_fields}

MainPaths(row) == {split(get(self.col_to_path, c), SL) : c \in MainFields(row)}

IsPrefix(a, b) == Len(a) <= Len(b) /\ SubSeq(b, 1, Len(a)) = a

C13_MainLeaves ==
    (pc = "MainPopulated" /\ sheet_i = 1) =>
        LET row == SubmissionRow(self, CurrentUuid)
            valued == {i \in 1..Len(etree) : etree[i].text # None /\ etree[i].made = "field"}
        IN  /\ {TagPath(etree, i) : i \in valued} = MainPaths(row)
            /\ \A i \in valued : etree[i].src \in MainFields(row)
            /\ \A i \in 2..Len(etree) :
                  \/ etree[i].made = "formhub"
                  \/ /\ etree[i].made = "field"
                     /\ \E q \in MainPaths(row) : IsPrefix(TagPath(etree, i), q)

\* the row holds a column without mapping, a mapped metadata column and the
\* column of a group-only field next to fields that were written
C13_Witness ==
    /\ pc = "MainPopulated" /\ sheet_i = 1
    /\ LET row == SubmissionRow(self, CurrentUuid)
       IN  /\ DOMAIN row \ (keys(self.col_to_path) \cup {UuidCol}) # {}
           /\ \E c \in DOMAIN row \cap keys(self.col_to_path) : startswith(c, <<"_">>)
           /\ DOMAIN row \cap self.group_only_fields # {}
           /\ Cardinality(MainFields(row)) >= 2

\* C14: when the mapping file is missing or is no JSON the constructor raises,
\* and when the main table is missing convert_all raises; in both cases no
\* record is started, no document is returned or written, nothing is reported
\* per record, and a file that is no JSON never yields a converter.
BadMappingFile == ~mapping_file.exists \/ ~mapping_file.valid

NoMainTable == ~IsRaised(self) /\ DataSheet \notin DOMAIN self.sheets

NothingProcessed ==
    /\ cursor = 0 /\ uuids = <<>> /\ etree = <<>>
    /\ results = <<>> /\ files = <<>> /\ errors = <<>>

C14_ConfigErrorsFatal ==
    /\ BadMappingFile => (IsRaised(self) /\ pc = "raised" /\ NothingProcessed)
    /\ NoMainTable => (pc \in {"idle", "raised"} /\ NothingProcessed)

\* convert_all was called on a workbook without the main table and raised
C14_Witness ==
    /\ NoMainTable /\ pc = "raised"
    /\ form_version # None

\* C20: in the finished tree every repeat instance has at most one position
\* child; when its row supplies a position value the child carries that value;
\* and a synthesized number stands there only when the table has a position
\* column and the row supplies no value.
PositionChildren(t, instance) ==
    {q \in Children(t, instance) : t[q].tag = PositionTag}

Supplied(table, row) == {row[c] : c \in PositionColumns(table)} \ {NaN}

Synthesized(node) == node.made = "position" /\ node.src = None

C20_PositionOnlyWhenMissing ==
    pc = "TrailerAppended" =>
        \A name \in RepeatSheets :
            LET table == self.sheets[name]
                rows == RowsOf(table, CurrentUuid)
                inst == Instances(etree, name)
            IN  \A r \in 1..Len(rows) :
                    LET pos == PositionChildren(etree, inst[r])
                    IN  /\ Cardinality(pos) <= 1
                        /\ Supplied(table, rows[r]) # {} =>
                              \A q \in pos : etree[q].text \in Supplied(table, rows[r])
                        /\ (\E q \in pos : Synthesized(etree[q])) =>
                              /\ PositionColumns(table) # {}
                              /\ Supplied(table, rows[r]) = {}

\* C18: no step of convert_all or convert_submission changes the converter
\* (field mapping, choice mappings, group-only set, loaded tables), and with
\* a fixed form_version the document of a record is a function of the
\* converter and the identifier alone, whatever was converted before it.
Mutable(conv) ==
    <<conv.col_to_path, conv.choice_mappings, conv.group_only_fields, conv.sheets>>

SameForAnyHistory ==
    form_version # None =>
        \A e \in Range(results) : e.v = convert_submission(self, e.k, form_version)

C18_ReadOnlyModels ==
    /\ [][IsRaised(self) \/ Mutable(self') = Mutable(self)]_vars
    /\ []SameForAnyHistory

\* a second batch over a workbook with repeat rows returned two documents
C18_Witness ==
    /\ pc = "returned" /\ form_version # None
    /\ files # <<>> /\ output_dir = None
    /\ Len(results) >= 2
    /\ \E name \in RepeatSheets : self.sheets[name].rows # <<>>

\* C21: once the repeat tables are attached, a table has one instance for
\* every row of the record, all under one parent and in the order of the rows
\* in the table; the nodes of the r-th instance that carry a field are
\* exactly the mapped fields of the r-th row, each at its relative path with
\* the value of that row, and the only other text in it is its own position.
RECURSIVE Owner(_, _)
Owner(t, i) ==
    IF t[i].made = "instance" THEN i
    ELSE IF t[i].parent = 0 THEN 0
    ELSE Owner(t, t[i].parent)

Owned(t, instance) == {i \in 1..Len(t) : i # instance /\ t[i].made # "instance"
                                            /\ Owner(t, i) = instance}

ExpectedText(c, v) ==
    LET converted == convert_label_to_name(self, c, v)
    IN  IF isna(converted) THEN <<>> ELSE converted

C21_InstancesFromOwnRow ==
    pc = "RepeatsAttached" =>
        \A name \in RepeatSheets :
            LET rows == RowsOf(self.sheets[name], CurrentUuid)
                inst == Instances(etree, name)
            IN  /\ Len(inst) = Len(rows)
                /\ \A r, s \in 1..Len(inst) : etree[inst[r]].parent = etree[inst[s]].parent
                /\ \A r \in 1..Len(inst) :
                      /\ \A i \in Owned(etree, inst[r]) :
                            IF etree[i].src # None
                            THEN /\ etree[i].src \in WrittenInRepeat(name, rows[r])
                                 /\ PathFrom(etree, inst[r], i)
                                       = split(RelativePath(name, etree[i].src), SL)
                                 /\ etree[i].text
                                       = ExpectedText(etree[i].src, rows[r][etree[i].src])
                            ELSE etree[i].text # None =>
                                    (etree[i].made = "position" /\ etree[i].text = str(r))
                      /\ \A c \in WrittenInRepeat(name, rows[r]) :
                            NodesAt(etree, inst[r], RelativePath(name, c)) # {}

\* a record has two rows with different values, and each is in its instance
C21_Witness ==
    /\ pc = "RepeatsAttached"
    /\ \E name \in RepeatSheets :
          LET rows == RowsOf(self.sheets[name], CurrentUuid)
              inst == Instances(etree, name)
          IN  /\ Len(rows) = 2 /\ Len(inst) = 2
              /\ rows[1][Fa] = Blue /\ rows[2][Fa] = Red
              /\ \E i \in Children(etree, inst[1]) : etree[i].text = Blue
              /\ \E i \in Children(etree, inst[2]) : etree[i].text = Red

\* C22: every instance of a repeat table hangs under the node that the
\* table's mapped path without its last segment leads to from the root (the
\* root itself when the table is unmapped or its path has one segment); that
\* node is the one a walk from the root finds, so nodes the main hierarchy
\* made are reused, and a table mapped below a group is never at the root.
AllButLast(parts) == SubSeq(parts, 1, Len(parts) - 1)

ParentParts(name) ==
    IF name \in keys(self.col_to_path)
    THEN AllButLast(split(get(self.col_to_path, name), SL))
    ELSE <<>>

RECURSIVE Follow(_, _, _)
Follow(t, n, parts) ==
    IF parts = <<>> THEN n
    ELSE IF find(t, n, Head(parts)) = 0 THEN 0
    ELSE Follow(t, find(t, n, Head(parts)), Tail(parts))

C22_RepeatPlacement ==
    pc = "RepeatsAttached" =>
        \A name \in RepeatSheets :
            \A i \in Range(Instances(etree, name)) :
                /\ TagPath(etree, etree[i].parent) = ParentParts(name)
                /\ etree[i].parent = Follow(etree, Root, ParentParts(name))
                /\ ParentParts(name) # <<>> => etree[i].parent # Root

\* an instance two levels down, below a node of the main hierarchy and a
\* node the walk had to create
C22_Witness ==
    /\ pc = "RepeatsAttached"
    /\ \E i \in Range(Instances(etree, Rep)) :
          LET h == etree[i].parent
              g == etree[h].parent
          IN  /\ h # Root /\ g # Root
              /\ etree[g].parent = Root
              /\ etree[g].made = "field" /\ etree[h].made = "walk"

\* C24 as stated: once the main row is in the tree, the children that the
\* main row made under one parent stand in the order in which the mapping
\* first declares a field whose path passes through each of them.
Least(S) == CHOOSE x \in S : \A y \in S : x <= y

DeclaredThrough(t, i) ==
    {k \in 1..Len(self.col_to_path) :
        IsPrefix(TagPath(t, i), split(self.col_to_path[k].v, SL))}

FromMainRow(t) == {i \in 2..Len(t) : t[i].made = "field"}

C24_DeclaredOrder ==
    (pc = "MainPopulated" /\ sheet_i = 1) =>
        \A i, j \in FromMainRow(etree) :
            (i < j /\ etree[i].parent = etree[j].parent)
                => Least(DeclaredThrough(etree, i)) < Least(DeclaredThrough(etree, j))

\* C24 amended: they stand in the order in which the mapping first declares
\* a field that is written (present in the row, no metadata or identifier
\* column, not group-only) and whose path passes through each of them.
WrittenThrough(t, row, i) ==
    {k \in DeclaredThrough(t, i) : self.col_to_path[k].k \in MainFields(row)}

C24_WrittenOrder ==
    (pc = "MainPopulated" /\ sheet_i = 1) =>
        LET row == SubmissionRow(self, CurrentUuid)
        IN  \A i, j \in FromMainRow(etree) :
                (i < j /\ etree[i].parent = etree[j].parent)
                    => /\ WrittenThrough(etree, row, i) # {}
                       /\ WrittenThrough(etree, row, j) # {}
                       /\ Least(WrittenThrough(etree, row, i))
                             < Least(WrittenThrough(etree, row, j))

\* two children of the root, the second one declared first by a group marker
C24_Witness ==
    /\ pc = "MainPopulated" /\ sheet_i = 1
    /\ \E i, j \in Children(etree, Root) \cap FromMainRow(etree) :
          /\ i < j
          /\ Least(DeclaredThrough(etree, j)) < Least(DeclaredThrough(etree, i))
          /\ self.col_to_path[Least(DeclaredThrough(etree, j))].k \in self.group_only_fields

\* C25: the root of every document is named after the form identifier and
\* has the attributes id (the form identifier) and version (the form_version
\* argument, or a generated one when none is given), in this order; it has a
\* formhub child exactly when the hub identifier is configured and not
\* empty, and then formhub is the first child of the root and holds one
\* uuid node with the identifier as text.
HubConfigured == self.formhub_uuid # None /\ self.formhub_uuid # <<>>

HubBlocks(doc) == {i \in Children(doc, Root) : doc[i].tag = <<"formhub">>}

C25_RootConstruction ==
    \A e \in Range(results) :
        LET doc == e.v
        IN  /\ doc[Root].parent = 0 /\ doc[Root].tag = self.form_id
            /\ \A i \in 2..Len(doc) : doc[i].parent # 0
            /\ Len(doc[Root].attrib) = 2
            /\ doc[Root].attrib[1] = [k |-> <<"id">>, v |-> self.form_id]
            /\ doc[Root].attrib[2].k = <<"version">>
            /\ IF form_version # None
               THEN doc[Root].attrib[2].v = form_version
               ELSE \E now \in Timestamps :
                       doc[Root].attrib[2].v = <<"8", SP, "(">> \o now \o <<")">>
            /\ HubConfigured <=> HubBlocks(doc) # {}
            /\ HubConfigured =>
                  /\ HubBlocks(doc) = {ChildList(doc, Root)[1]}
                  /\ \A h \in HubBlocks(doc) :
                        /\ Cardinality(Children(doc, h)) = 1
                        /\ \A u \in Children(doc, h) :
                              /\ doc[u].tag = <<"uuid">>
                              /\ doc[u].text = self.formhub_uuid

\* a document with the identity block before the groups of the main row
C25_Witness ==
    /\ pc = "returned" /\ ~IsRaised(self) /\ HubConfigured
    /\ \E e \in Range(results) :
          /\ Cardinality(Children(e.v, Root)) >= 5
          /\ e.v[ChildList(e.v, Root)[1]].tag = <<"formhub">>
          /\ e.v[ChildList(e.v, Root)[2]].tag = Grp

\* C26: the step of the assembler for a table other than the main one that
\* has no identifier column leaves the tree of the record as it is: no
\* instance and no ancestor group is added; and no document holds a node
\* named after such a table or made on the way to it.
IsReference(name) == name # DataSheet /\ UuidCol \notin self.sheets[name].columns

ReferenceSheets == {name \in Range(self.sheet_names) : IsReference(name)}

C26_ReferenceIgnored ==
    /\ [][(pc = "MainPopulated" /\ IsReference(self.sheet_names[sheet_i]))
              => etree' = etree]_vars
    /\ [](\A e \in Range(results) : \A name \in ReferenceSheets :
              \A i \in 2..Len(e.v) : e.v[i].tag \notin Range(ParentParts(name)) \cup {name}
                                        \/ \E q \in MainPaths(SubmissionRow(self, e.k)) :
                                              IsPrefix(TagPath(e.v, i), q))

\* the assembler has gone past a reference table that has rows and is
\* mapped two levels below the root
C26_Witness ==
    /\ pc = "RepeatsAttached"
    /\ \E name \in ReferenceSheets :
          /\ self.sheets[name].rows # <<>>
          /\ Len(ParentParts(name)) = 2

\* C28: every document has exactly one child of the root named meta, and
\* that child holds exactly one instanceID.
MetaBlocks(doc) == {i \in Children(doc, Root) : doc[i].tag = <<"meta">>}

InstanceIds(doc, block) == {i \in Children(doc, block) : doc[i].tag = <<"instanceID">>}

C28_OneIdentityBlock ==
    \A e \in Range(results) :
        /\ Cardinality(MetaBlocks(e.v)) = 1
        /\ \A block \in MetaBlocks(e.v) : Cardinality(InstanceIds(e.v, block)) = 1

\* C29: the step of the assembler for a repeat table in which the record
\* has no row leaves the tree of the record as it is.
NoRowsHere ==
    /\ pc = "MainPopulated"
    /\ self.sheet_names[sheet_i] \in RepeatSheets
    /\ RowsOf(self.sheets[self.sheet_names[sheet_i]], CurrentUuid) = <<>>

C29_NoRowsNoChange == [][NoRowsHere => etree' = etree]_vars

(***************************************************************************)
(* Resolver inputs: choice dictionaries, fields and raw cell values        *)
(***************************************************************************)
MaxLen == 4

Alphabet == {"R", "B", "r", "x", ";", "|", SP}

RECURSIVE StrUpTo(_)
StrUpTo(n) ==
    IF n = 0 THEN {<<>>}
    ELSE LET shorter == StrUpTo(n - 1)
         IN  shorter \cup {Append(s, c) : s \in shorter, c \in Alphabet}

RawValues == StrUpTo(MaxLen) \cup {NaN}

\* {"Red": "r", "Blue": "b"}: label -> code, as generate_mapping.py writes it
LabelToCode == << [k |-> <<"R">>, v |-> <<"r">>], [k |-> <<"B">>, v |-> <<"b">>] >>
\* {"r": "Red", "b": "Blue"}: code -> label, the "older format" of line 126
CodeToLabel == << [k |-> <<"r">>, v |-> <<"R">>], [k |-> <<"b">>, v |-> <<"B">>] >>
\* {"r": "Red ", "b": "Blue"}: code -> label with a label padded by a blank
PaddedLabel == << [k |-> <<"r">>, v |-> <<"R", SP>>], [k |-> <<"b">>, v |-> <<"B">>] >>
\* {"Red Blue": "r", "Blue": "b"}: a label of two words
TwoWordLabel == << [k |-> <<"R", SP, "B">>, v |-> <<"r">>], [k |-> <<"B">>, v |-> <<"b">>] >>

\* {"Blue": "r", "r": "x"}: "r" is a code and also a label
CodeIsLabel == << [k |-> <<"B">>, v |-> <<"r">>], [k |-> <<"r">>, v |-> <<"x">>] >>

ChoiceDicts == {LabelToCode, CodeToLabel, PaddedLabel, TwoWordLabel, CodeIsLabel}

\* the direction in which each dictionary above is written
IsCodeToLabel(d) == d \in {CodeToLabel, PaddedLabel}

Color == <<"color">>
Other == <<"other">>

\* a converter whose mapping file gives the field "color" the dictionary d
ResolverConv(d, flag) ==
    Converter([fields |-> << Entry(Color, Color) >>, choices |-> << Entry(Color, d) >>],
              << DataSheet >>,
              (DataSheet :> [columns |-> {UuidCol, Color}, rows |-> <<>>]),
              None, flag)

ResolverConvs ==
    {ResolverConv(d, TRUE) : d \in ChoiceDicts} \cup {ResolverConv(LabelToCode, FALSE)}

(***************************************************************************)
(* Resolver driver: resolve a value, then resolve the result again         *)
(***************************************************************************)
InitChoice ==
    /\ self \in ResolverConvs
    /\ mapping_file = None
    /\ field_name \in {Color, Other}
    /\ value \in RawValues
    /\ once = None
    /\ twice = None
    /\ cpc = "start"
    /\ pc = "idle" /\ form_version = None /\ output_dir = None /\ files = <<>>
    /\ uuids = <<>> /\ cursor = 0
    /\ results = <<>> /\ errors = <<>> /\ etree = <<>> /\ sheet_i = 0
    /\ SubmitIdle

ResolveOnce ==
    /\ cpc = "start"
    /\ once' = convert_label_to_name(self, field_name, value)
    /\ cpc' = "once"
    /\ UNCHANGED <<mapping_file, self, value, field_name, twice>>
    /\ UNCHANGED engineVars
    /\ UNCHANGED submitVars

ResolveTwice ==
    /\ cpc = "once"
    /\ twice' = convert_label_to_name(self, field_name, once)
    /\ cpc' = "twice"
    /\ UNCHANGED <<mapping_file, self, value, field_name, once>>
    /\ UNCHANGED engineVars
    /\ UNCHANGED submitVars

NextChoice == ResolveOnce \/ ResolveTwice

SpecChoice == InitChoice /\ [][NextChoice]_vars

(***************************************************************************)
(* Vocabulary of the resolver claims                                       *)
(***************************************************************************)
Resolved == cpc # "start"
HasChoices == field_name \in keys(self.choice_mappings)
Dict == get(self.choice_mappings, field_name)

\* s is a code, a label key, or a label of a code -> label entry
MatchesWhole(d, s) ==
    \/ s \in values(d)
    \/ s \in keys(d)
    \/ \E i \in 1..Len(d) : strip(d[i].v) = s

\* what one token stands for: a code stays, a label gives its code
TokenCode(d, t) ==
    IF t \in values(d) THEN t
    ELSE IF t \in keys(d) THEN get(d, t)
    ELSE IF \E i \in 1..Len(d) : strip(d[i].v) = t
         THEN d[CHOOSE i \in 1..Len(d) :
                   /\ strip(d[i].v) = t
                   /\ \A j \in 1..(i - 1) : strip(d[j].v) # t].k
    ELSE t

FirstSep(s) ==
    IF contains(s, ";") THEN ";" ELSE IF contains(s, "|") THEN "|" ELSE SP

HasSep(s) == contains(s, ";") \/ contains(s, "|") \/ contains(s, SP)

\* the pieces of s between the occurrences of c, by position
SepPositions(s, c) == {i \in 1..Len(s) : s[i] = c}
NthSmallest(S, n) == CHOOSE x \in S : Cardinality({y \in S : y < x}) = n - 1
Piece(s, c, n) ==
    LET P == SepPositions(s, c)
        lo == IF n = 1 THEN 0 ELSE NthSmallest(P, n - 1)
        hi == IF n = Cardinality(P) + 1 THEN Len(s) + 1 ELSE NthSmallest(P, n)
    IN  SubSeq(s, lo + 1, hi - 1)
NonBlank(t) == t # <<>>
Tokens(s, c) ==
    SelectSeq([n \in 1..(Cardinality(SepPositions(s, c)) + 1) |-> strip(Piece(s, c, n))],
              NonBlank)

\* C4: resolving a value and then resolving the result again gives the same
\* result as resolving the value once.
C4_Idempotent == cpc = "twice" => twice = once

\* C5: with label resolution enabled, a value that matches no code or label as
\* a whole is split on the first separator present in the order ';', '|', ' ',
\* each token is resolved on its own, and the resolved tokens are joined with
\* one space; {Red: r, Blue: b} turns "Red Blue" into "r b".
C5_Applies ==
    /\ Resolved /\ self.use_labels /\ HasChoices /\ ~isna(value)
    /\ ~MatchesWhole(Dict, strip(value))
    /\ HasSep(strip(value))

C5_MultiSelect ==
    C5_Applies =>
        LET toks == Tokens(strip(value), FirstSep(strip(value)))
        IN  /\ once = join(<<SP>>, [i \in 1..Len(toks) |-> TokenCode(Dict, toks[i])])
            /\ (Dict = LabelToCode /\ value = <<"R", SP, "B">>) => once = <<"r", SP, "b">>

C5_Witness ==
    /\ C5_Applies /\ Dict = LabelToCode
    /\ value = <<"R", ";", "B">> /\ once = <<"r", SP, "b">>

\* C6: with a code -> label dictionary and label resolution enabled, resolving
\* a value equal to a label returns the key (the code) of that label.
C6_ReverseDirection ==
    (Resolved /\ self.use_labels /\ HasChoices /\ ~isna(value) /\ IsCodeToLabel(Dict)) =>
        \A i \in 1..Len(Dict) : strip(value) = Dict[i].v => once = Dict[i].k

\* C7 as stated: a value that matches nothing, with no token that matches
\* anything, comes back exactly as it was given.
C7_Applies ==
    /\ Resolved /\ HasChoices
    /\ isna(value) \/
         /\ ~MatchesWhole(Dict, strip(value))
         /\ \A c \in {";", "|", SP} : LET toks == Tokens(strip(value), c)
                IN  \A i \in 1..Len(toks) : ~MatchesWhole(Dict, toks[i])

C7_PassThroughExact == C7_Applies => once = value

\* C7 amended: such a value comes back exactly as given unless resolution is
\* enabled and the trimmed value holds ';', '|' or a blank; then its trimmed
\* non-empty tokens come back unchanged, joined by single blanks.
C7_PassThrough ==
    C7_Applies =>
        IF self.use_labels /\ ~isna(value) /\ HasSep(strip(value))
        THEN once = join(<<SP>>, Tokens(strip(value), FirstSep(strip(value))))
        ELSE once = value

C7_Witness ==
    /\ C7_Applies /\ self.use_labels
    /\ value = <<"x", ";", "x">> /\ once = <<"x", SP, "x">>

\* C19: the first rule that applies decides: (1) resolution off, value
\* missing or field without dictionary: the value; (2) trimmed value is a
\* code: the value, also when it is a label key; (3) trimmed value is a label
\* key: its code, also when it holds a separator; (4) trimmed value is the
\* trimmed label of an entry: the key of the first such entry; (5) it holds a
\* separator: the resolved tokens joined by blanks; (6) the value.
Rule1 == ~self.use_labels \/ isna(value) \/ ~HasChoices
Rule2 == strip(value) \in values(Dict)
Rule3 == strip(value) \in keys(Dict)
Rule4 == \E i \in 1..Len(Dict) : strip(Dict[i].v) = strip(value)
Rule5 == HasSep(strip(value))

FirstRule ==
    IF Rule1 THEN 1 ELSE IF Rule2 THEN 2 ELSE IF Rule3 THEN 3
    ELSE IF Rule4 THEN 4 ELSE IF Rule5 THEN 5 ELSE 6

C19_RuleOrder ==
    Resolved =>
        CASE FirstRule = 1 -> once = value
          [] FirstRule = 2 -> once = value
          [] FirstRule = 3 -> once = get(Dict, strip(value))
          [] FirstRule = 4 ->
                \E i \in 1..Len(Dict) :
                    /\ strip(Dict[i].v) = strip(value)
                    /\ \A j \in 1..(i - 1) : strip(Dict[j].v) # strip(value)
                    /\ once = Dict[i].k
          [] FirstRule = 5 ->
                LET toks == Tokens(strip(value), FirstSep(strip(value)))
                IN  once = join(<<SP>>, [i \in 1..Len(toks) |-> TokenCode(Dict, toks[i])])
          [] OTHER -> once = value

\* a value that is a code and a label key came back unchanged
C19_Witness ==
    /\ Resolved /\ ~Rule1 /\ Rule2 /\ Rule3
    /\ Dict = CodeIsLabel /\ value = <<"r">> /\ once = <<"r">>

(***************************************************************************)
(* The submit command (src/scripts/submit_to_kobo.py).  Python values are  *)
(* token sequences: None, True, False and strings; a dict is a function    *)
(* whose domain is its set of keys.                                        *)
(***************************************************************************)
PyTrue == <<"True">>
PyFalse == <<"False">>
Falsy(v) == v \in {None, <<>>, PyFalse}

\* lines 154-178: the options of the parser
OptionNames ==
    {"config", "excel", "mapping", "token", "form-id", "server", "kc-server", "kf-server",
     "formhub-uuid", "version-id", "form-version", "dry-run", "output-dir",
     "stop-on-error", "uuid", "use-labels", "debug"}

Flags == {"dry-run", "stop-on-error", "use-labels", "debug"}

KcHost == "kc.kobotoolbox.org"
KfHost == "kf.kobotoolbox.org"
DefaultServer == <<"https://", KcHost>>

\* what argparse stores for an option that is not on the command line
ArgparseDefault(name) ==
    IF name \in Flags THEN PyFalse
    ELSE IF name = "server" THEN DefaultServer
    ELSE None

\* args = parser.parse_args()
parse_args(av) ==
    [n \in OptionNames |-> IF n \in DOMAIN av THEN av[n] ELSE ArgparseDefault(n)]

\* lines 197-211
get_arg(parsed, av, cfg, name, default) ==
    LET cli_value == parsed[name]
        config_get(d) == IF name \in DOMAIN cfg THEN cfg[name] ELSE d
    IN  IF cli_value # None
        THEN IF cli_value \in {PyTrue, PyFalse}
             THEN IF name \in DOMAIN av
                  THEN cli_value
                  ELSE config_get(IF default # None THEN default ELSE cli_value)
             ELSE cli_value
        ELSE config_get(default)

\* lines 214-229: the default each call of get_arg passes
GetArgDefault(name) ==
    IF name = "server" THEN DefaultServer
    ELSE IF name \in Flags THEN PyFalse
    ELSE None

\* server.replace('kc.kobotoolbox.org', 'kf.kobotoolbox.org')
replace(string, old, new) ==
    [i \in DOMAIN string |-> IF string[i] = old THEN new ELSE string[i]]

\* lines 214-236: every option through get_arg; "kc" and "kf" are the
\* kc_server and kf_server variables after the server defaults
BuildArguments(av, cfg) ==
    LET parsed == parse_args(av)
        resolved == [n \in OptionNames \ {"config"} |->
                        get_arg(parsed, av, cfg, n, GetArgDefault(n))]
        kc_server == IF Falsy(resolved["kc-server"]) THEN resolved["server"]
                     ELSE resolved["kc-server"]
        kf_server == IF Falsy(resolved["kf-server"])
                     THEN replace(resolved["server"], KcHost, KfHost)
                     ELSE resolved["kf-server"]
    IN  resolved @@ ("kc" :> kc_server) @@ ("kf" :> kf_server)

\* what the transport gives to one request
Response(code) == [status_code |-> code]
TransportError == [exception |-> "RequestException"]
IsResponse(outcome) == "status_code" \in DOMAIN outcome
StatusCodes == {200, 201, 204, 400}
TransportOutcomes == {Response(code) : code \in StatusCodes} \cup {TransportError}

\* a submitter that takes every 2xx status for a success
submit_xml_Any2xx(outcome) ==
    IF IsResponse(outcome)
    THEN [success |-> outcome.status_code \in 200..299, status_code |-> outcome.status_code]
    ELSE [success |-> FALSE, error |-> outcome.exception]

\* lines 78-106 of KoboSubmitter.submit_xml
submit_xml(outcome) ==
    IF IsResponse(outcome)
    THEN [success |-> outcome.status_code \in {200, 201}, status_code |-> outcome.status_code]
    ELSE [success |-> FALSE, error |-> outcome.exception]

(***************************************************************************)
(* Command lines, configuration files and the steps of main                *)
(***************************************************************************)
MaxSubs == 2     \* documents convert_all hands to submit_multiple

ContentTmp == <<"content_", ".json">>
MappingTmp == <<"mapping_", ".json">>

CliVarying == {"mapping", "server", "token", "dry-run", "stop-on-error", "uuid"}
CfgVarying == {"mapping", "server", "token", "dry-run"}
AlwaysGiven == {"excel", "form-id"}

CliValue(name) ==
    IF name \in Flags THEN PyTrue
    ELSE IF name = "uuid" THEN Uuid(1)
    ELSE <<"cli:", name>>

CfgValue(name) == IF name \in Flags THEN PyTrue ELSE <<"cfg:", name>>

ConfigDicts == {[n \in keyset |-> CfgValue(n)] : keyset \in SUBSET CfgVarying}

ConfigFiles ==
    {MissingFile, BrokenFile(<<>>)} \cup {JsonFile(cfg) : cfg \in ConfigDicts}

ApiOutcomes == {"RequestException", "status", "no content", "ok"}

InitSubmit ==
    /\ \E given \in SUBSET CliVarying :
          \/ /\ argv = [n \in given \cup AlwaysGiven |-> CliValue(n)]
             /\ config_file = MissingFile
          \/ /\ argv = [n \in given \cup AlwaysGiven \cup {"config"} |-> CliValue(n)]
             /\ config_file \in ConfigFiles
    /\ config = <<>> /\ args = <<>> /\ mpc = "start"
    /\ fetched = FALSE /\ disk = {} /\ temp_content_file = None /\ temp_mapping_file = None
    /\ mapping_path = None /\ submissions = <<>> /\ attempts = <<>>
    /\ successful = <<>> /\ failed = <<>>
    /\ mapping_file = None /\ self = None
    /\ pc = "off" /\ form_version = None /\ output_dir = None /\ files = <<>>
    /\ uuids = <<>> /\ cursor = 0
    /\ results = <<>> /\ errors = <<>> /\ etree = <<>> /\ sheet_i = 0
    /\ ResolverIdle

\* lines 183-193
LoadConfig ==
    /\ mpc = "start"
    /\ IF "config" \notin DOMAIN argv \/ ~config_file.exists
       THEN config' = <<>> /\ mpc' = "configured"
       ELSE IF ~config_file.valid
       THEN config' = <<>> /\ mpc' = "exit1"
       ELSE config' = config_file.data /\ mpc' = "configured"
    /\ UNCHANGED <<argv, config_file, args, fetched, disk, temp_content_file,
                   temp_mapping_file, mapping_path, submissions, attempts, successful,
                   failed>>
    /\ UNCHANGED <<mapping_file, self>>
    /\ UNCHANGED engineVars
    /\ UNCHANGED resolverVars

\* lines 214-244
ResolveArguments ==
    /\ mpc = "configured"
    /\ args' = BuildArguments(argv, config)
    /\ mpc' = IF Falsy(args'["excel"]) \/ Falsy(args'["token"]) \/ Falsy(args'["form-id"])
              THEN "exit2" ELSE "validated"
    /\ UNCHANGED <<argv, config_file, config, fetched, disk, temp_content_file,
                   temp_mapping_file, mapping_path, submissions, attempts, successful,
                   failed>>
    /\ UNCHANGED <<mapping_file, self>>
    /\ UNCHANGED engineVars
    /\ UNCHANGED resolverVars

\* lines 246-285 and 312-314: the asset is requested and its content saved
FetchAsset ==
    /\ mpc = "validated"
    /\ fetched' = TRUE
    /\ \E outcome \in ApiOutcomes :
          IF outcome = "ok"
          THEN /\ temp_content_file' = ContentTmp
               /\ disk' = disk \cup {ContentTmp}
               /\ mpc' = "contentSaved"
          ELSE /\ mpc' = "exit1"
               /\ UNCHANGED <<temp_content_file, disk>>
    /\ UNCHANGED <<argv, config_file, config, args, temp_mapping_file, mapping_path,
                   submissions, attempts, successful, failed>>
    /\ UNCHANGED <<mapping_file, self>>
    /\ UNCHANGED engineVars
    /\ UNCHANGED resolverVars

\* lines 288-310: the mapping is generated into a temporary file
GenerateMapping ==
    /\ mpc = "contentSaved"
    /\ temp_mapping_file' = MappingTmp
    /\ \E generated \in BOOLEAN :
          IF generated
          THEN /\ args' = [args EXCEPT !["mapping"] = MappingTmp]
               /\ disk' = disk \cup {MappingTmp}
               /\ mpc' = "mappingReady"
          ELSE /\ disk' = (disk \cup {MappingTmp}) \ {temp_content_file}
               /\ mpc' = "exit1"
               /\ UNCHANGED args
    /\ UNCHANGED <<argv, config_file, config, fetched, temp_content_file, mapping_path,
                   submissions, attempts, successful, failed>>
    /\ UNCHANGED <<mapping_file, self>>
    /\ UNCHANGED engineVars
    /\ UNCHANGED resolverVars

\* lines 316-357: the converter is constructed and run; the constructor,
\* convert_submission and convert_all raise or return as the engine does
Convert ==
    /\ mpc = "mappingReady"
    /\ mapping_path' = args["mapping"]
    /\ \/ /\ mpc' = "crashed"
          /\ UNCHANGED submissions
       \/ /\ ~Falsy(args["uuid"])
          /\ submissions' = <<args["uuid"]>>
          /\ mpc' = "converted"
       \/ /\ Falsy(args["uuid"])
          /\ \E count \in 0..MaxSubs : submissions' = [i \in 1..count |-> Uuid(i)]
          /\ mpc' = "converted"
    /\ UNCHANGED <<argv, config_file, config, args, fetched, disk, temp_content_file,
                   temp_mapping_file, attempts, successful, failed>>
    /\ UNCHANGED <<mapping_file, self>>
    /\ UNCHANGED engineVars
    /\ UNCHANGED resolverVars

\* lines 365-385
DryRun ==
    /\ mpc = "converted" /\ ~Falsy(args["dry-run"])
    /\ disk' = disk \ {temp_mapping_file, temp_content_file}
    /\ mpc' = "returned"
    /\ UNCHANGED <<argv, config_file, config, args, fetched, temp_content_file,
                   temp_mapping_file, mapping_path, submissions, attempts, successful,
                   failed>>
    /\ UNCHANGED <<mapping_file, self>>
    /\ UNCHANGED engineVars
    /\ UNCHANGED resolverVars

\* lines 395-401 and 121-125: the submitter is made and submit_multiple begins
StartSubmit ==
    /\ mpc = "converted" /\ Falsy(args["dry-run"])
    /\ attempts' = <<>> /\ successful' = <<>> /\ failed' = <<>>
    /\ mpc' = "submitting"
    /\ UNCHANGED <<argv, config_file, config, args, fetched, disk, temp_content_file,
                   temp_mapping_file, mapping_path, submissions>>
    /\ UNCHANGED <<mapping_file, self>>
    /\ UNCHANGED engineVars
    /\ UNCHANGED resolverVars

\* a loop that goes on after a failure whatever stop_on_error says
SubmitNext_NoBreak ==
    /\ mpc = "submitting" /\ Len(attempts) < Len(submissions)
    /\ \E outcome \in TransportOutcomes :
          LET uuid == submissions[Len(attempts) + 1]
              result == submit_xml(outcome)
          IN  /\ attempts' = Append(attempts, [uuid |-> uuid, outcome |-> outcome,
                                               result |-> result])
              /\ IF result.success
                 THEN /\ successful' = Append(successful, uuid)
                      /\ UNCHANGED <<failed, mpc>>
                 ELSE /\ failed' = Append(failed, uuid)
                      /\ UNCHANGED <<successful, mpc>>
    /\ UNCHANGED <<argv, config_file, config, args, fetched, disk, temp_content_file,
                   temp_mapping_file, mapping_path, submissions>>
    /\ UNCHANGED <<mapping_file, self>>
    /\ UNCHANGED engineVars
    /\ UNCHANGED resolverVars

\* lines 127-144: one turn of the loop of submit_multiple
SubmitNext ==
    /\ mpc = "submitting" /\ Len(attempts) < Len(submissions)
    /\ \E outcome \in TransportOutcomes :
          LET uuid == submissions[Len(attempts) + 1]
              result == submit_xml(outcome)
          IN  /\ attempts' = Append(attempts, [uuid |-> uuid, outcome |-> outcome,
                                               result |-> result])
              /\ IF result.success
                 THEN /\ successful' = Append(successful, uuid)
                      /\ UNCHANGED <<failed, mpc>>
                 ELSE /\ failed' = Append(failed, uuid)
                      /\ UNCHANGED successful
                      /\ mpc' = IF ~Falsy(args["stop-on-error"]) THEN "submitted"
                                ELSE mpc
    /\ UNCHANGED <<argv, config_file, config, args, fetched, disk, temp_content_file,
                   temp_mapping_file, mapping_path, submissions>>
    /\ UNCHANGED <<mapping_file, self>>
    /\ UNCHANGED engineVars
    /\ UNCHANGED resolverVars

\* lines 146 and 403-433: the summary, the cleanup and the exit code
Summary ==
    /\ \/ mpc = "submitted"
       \/ mpc = "submitting" /\ Len(attempts) = Len(submissions)
    /\ disk' = disk \ {temp_mapping_file, temp_content_file}
    /\ mpc' = IF failed = <<>> THEN "exit0" ELSE "exit1"
    /\ UNCHANGED <<argv, config_file, config, args, fetched, temp_content_file,
                   temp_mapping_file, mapping_path, submissions, attempts, successful,
                   failed>>
    /\ UNCHANGED <<mapping_file, self>>
    /\ UNCHANGED engineVars
    /\ UNCHANGED resolverVars

NextSubmit ==
    \/ LoadConfig
    \/ ResolveArguments
    \/ FetchAsset
    \/ GenerateMapping
    \/ Convert
    \/ DryRun
    \/ StartSubmit
    \/ SubmitNext
    \/ Summary

SpecSubmit == InitSubmit /\ [][NextSubmit]_vars

(***************************************************************************)
(* Vocabulary of the submit claims                                         *)
(***************************************************************************)
\* C15: every call of submit_xml returns; its result says success exactly
\* when the transport gave a response with status 200 or 201, and an
\* exception of the transport is a returned failure: the command never ends
\* on an uncaught error once it submits.
Accepted(outcome) == IsResponse(outcome) /\ outcome.status_code \in {200, 201}

C15_SuccessIffOk ==
    /\ \A i \in DOMAIN attempts :
          /\ attempts[i].result.success = Accepted(attempts[i].outcome)
          /\ (attempts[i].uuid \in Range(successful)) = Accepted(attempts[i].outcome)
          /\ (attempts[i].uuid \in Range(failed)) = ~Accepted(attempts[i].outcome)
    /\ mpc = "crashed" => attempts = <<>>

\* a transport exception was followed by an accepted submission, and a 2xx
\* status other than 200 and 201 was met
C15_Witness ==
    /\ mpc \in {"exit0", "exit1"}
    /\ \E i, j \in DOMAIN attempts :
          /\ i < j
          /\ attempts[i].outcome = TransportError
          /\ attempts[j].outcome = Response(201)

\* C16: after get_arg every option has the command-line value when it was
\* given there, else the value of the config file when it has the key, else
\* the default.
Expected(name) ==
    IF name \in DOMAIN argv THEN argv[name]
    ELSE IF name \in DOMAIN config THEN config[name]
    ELSE GetArgDefault(name)

C16_Precedence ==
    mpc = "validated" => \A name \in OptionNames \ {"config"} : args[name] = Expected(name)

\* C17: a mapping file given on the command line or in the config file is the
\* one the converter is constructed with, and the API is asked for the form
\* only when none was given.
C17_ProvidedMappingUsed ==
    /\ (mapping_path # None /\ Expected("mapping") # None)
          => mapping_path = Expected("mapping")
    /\ fetched => Expected("mapping") = None

\* C27: submit_multiple attempts the submissions in their order; every
\* attempted identifier is in exactly one of successful and failed, each
\* list in order of attempt; without stop_on_error every submission has been
\* attempted when it returns; with stop_on_error the loop ends at the first
\* failure, so failed holds at most one identifier, the last one attempted,
\* and the submissions after it are in neither list.
Submitting == mpc \in {"submitting", "submitted", "exit0", "exit1"} /\ args # <<>>

StopOnError == ~Falsy(args["stop-on-error"])

Attempted == [i \in DOMAIN attempts |-> attempts[i].uuid]

IsSubsequence(sub, seq) ==
    sub = SelectSeq(seq, LAMBDA u : u \in Range(sub))

C27_SubmitMultiple ==
    Submitting =>
        /\ Len(attempts) <= Len(submissions)
        /\ \A i \in DOMAIN attempts : attempts[i].uuid = submissions[i]
        /\ Range(successful) \cap Range(failed) = {}
        /\ Range(successful) \cup Range(failed) = Range(Attempted)
        /\ Len(successful) + Len(failed) = Len(attempts)
        /\ IsSubsequence(successful, Attempted) /\ IsSubsequence(failed, Attempted)
        /\ (~StopOnError /\ mpc # "submitting") => Len(attempts) = Len(submissions)
        /\ StopOnError =>
              /\ Len(failed) <= 1
              /\ failed # <<>> =>
                    /\ mpc # "submitting"
                    /\ failed[1] = attempts[Len(attempts)].uuid
                    /\ \A i \in (Len(attempts) + 1)..Len(submissions) :
                          submissions[i] \notin Range(successful) \cup Range(failed)
              /\ (failed = <<>> /\ mpc # "submitting") => Len(attempts) = Len(submissions)

\* with stop_on_error the first of two submissions failed and the command
\* ended without attempting the second
C27_Witness ==
    /\ mpc = "exit1" /\ args # <<>> /\ StopOnError
    /\ Len(submissions) = 2 /\ Len(attempts) = 1
    /\ failed = <<submissions[1]>> /\ successful = <<>>

\* C30: whenever the command has ended after it created its temporary
\* content file and its temporary mapping file, neither file exists.
Terminated == mpc \in {"exit0", "exit1", "exit2", "returned", "crashed"}

C30_TempFilesDeleted ==
    (Terminated /\ temp_content_file # None /\ temp_mapping_file # None)
        => (temp_content_file \notin disk /\ temp_mapping_file \notin disk)

(***************************************************************************)
(* Construction over small mapping files: the group-only classification    *)
(***************************************************************************)
MaxFields == 3     \* fields of a mapping file

FieldNames == {Grp, Fx, Fy}
FieldPaths == {Grp, Fx, Path(<<Grp, Fx>>), Path(<<Grp, Grp>>), Path(<<Grp \o Fx, Fy>>)}

\* the field tables of at most n entries, keys distinct as in a JSON object
RECURSIVE FieldTables(_)
FieldTables(n) ==
    IF n = 0 THEN {<<>>}
    ELSE LET shorter == FieldTables(n - 1)
         IN  shorter \cup {Append(d, Entry(name, path)) :
                              d \in {e \in shorter : Len(e) = n - 1},
                              name \in FieldNames, path \in FieldPaths}

DistinctKeys(d) == \A i, j \in 1..Len(d) : d[i].k = d[j].k => i = j

ClassifyMappings ==
    {[fields |-> d] : d \in {e \in FieldTables(MaxFields) : DistinctKeys(e)}}

EmptyWorkbook == (DataSheet :> [columns |-> {UuidCol}, rows |-> <<>>])

InitClassify ==
    /\ \E mapping_data \in ClassifyMappings : mapping_file = JsonFile(mapping_data)
    /\ self = None
    /\ cpc = "construct"
    /\ value = None /\ field_name = None /\ once = None /\ twice = None
    /\ pc = "off" /\ form_version = None /\ output_dir = None /\ files = <<>>
    /\ uuids = <<>> /\ cursor = 0
    /\ results = <<>> /\ errors = <<>> /\ etree = <<>> /\ sheet_i = 0
    /\ SubmitIdle

\* lines 55-92
Construct ==
    /\ cpc = "construct"
    /\ self' = ExcelToKoboXML(mapping_file, << DataSheet >>, EmptyWorkbook, None, FALSE)
    /\ cpc' = "constructed"
    /\ UNCHANGED <<mapping_file, value, field_name, once, twice>>
    /\ UNCHANGED engineVars
    /\ UNCHANGED submitVars

NextClassify == Construct

SpecClassify == InitClassify /\ [][NextClassify]_vars

\* C23: after construction a field f with path p is in the group-only set
\* exactly when the name of f is the last segment of p and some other field
\* of the mapping has a path that starts with p followed by '/'.
LastSegment(path) == split(path, SL)[Len(split(path, SL))]

C23_GroupOnlyIff ==
    cpc = "constructed" =>
        \A i \in 1..Len(self.col_to_path) :
            LET f == self.col_to_path[i].k
                path == self.col_to_path[i].v
            IN  (f \in self.group_only_fields)
                  <=> /\ f = LastSegment(path)
                      /\ \E j \in 1..Len(self.col_to_path) :
                            /\ j # i
                            /\ startswith(self.col_to_path[j].v, path \o <<SL>>)

\* one mapping holds a group-only field, a leaf named after its path's tail
\* and a field whose path only starts with the letters of the group's path
C23_Witness ==
    /\ cpc = "constructed"
    /\ self.group_only_fields = {Grp}
    /\ self.col_to_path = << Entry(Fx, Path(<<Grp, Fx>>)), Entry(Grp, Grp),
                             Entry(Fy, Path(<<Grp \o Fx, Fy>>)) >>

====
